---- MODULE Spec2Model ----
(***************************************************************************)
(* DevSwarm AI engine: the orchestration core.                             *)
(*                                                                         *)
(* The model follows services/agent_dispatcher.py (AgentTaskDispatcher),   *)
(* services/graph_execution.py (GraphExecutionService), graph.py (the      *)
(* workflow graph and its routing functions), core/base_agent.py           *)
(* (BaseAgent.process) and the execute steps of the orchestrator and the   *)
(* DevOps agent.  Every `await` of the source is a step boundary: what a   *)
(* coroutine does between two awaits is one atomic step, as it is under    *)
(* asyncio's cooperative scheduling.                                       *)
(*                                                                         *)
(* Processes: the queue consumer ("runner"), which performs graph runs one *)
(* after the other; the periodic scheduler run_forever ("loop"); and the   *)
(* run_agent_queue coroutines that asyncio.gather starts for one sweep.    *)
(***************************************************************************)
EXTENDS Integers, Sequences, FiniteSets, TLC

\* ------------------------------------------------------------------ bounds
\* Number of goals the queue consumer turns into graph runs.
MaxRuns == 1
\* Largest number of subtasks one orchestrator answer delegates.
MaxSubtasks == 2
\* Number of exceptions the calls awaited by GraphExecutionService.run raise.
MaxFaults == 2
\* Number of times the queue consumer is cancelled and started again.
MaxCancels == 1
\* Number of goals put on the stream when its order is looked at.
MaxQueue == 3

\* ------------------------------------------------------- enums (models.py)
IDLE == "Idle"
WORKING == "Working"
MEETING == "Meeting"
ERROR == "Error"
CLOCKED_OUT == "Clocked Out"

BACKLOG == "Backlog"
IN_PROGRESS == "In Progress"
REVIEW == "Review"
DONE == "Done"
BLOCKED == "Blocked"

END == "__end__"

\* Variant: the pending filter lets every status through.
PENDING_TASK_STATUSES_all == {BACKLOG, IN_PROGRESS, REVIEW, DONE, BLOCKED}

PENDING_TASK_STATUSES == {BACKLOG, IN_PROGRESS, REVIEW}

BUSY_AGENT_STATUSES == {WORKING, MEETING, ERROR, CLOCKED_OUT}

TaskStatuses == {BACKLOG, IN_PROGRESS, REVIEW, DONE, BLOCKED}

AgentStatuses == {IDLE, WORKING, MEETING, ERROR, CLOCKED_OUT}

\* ------------------------------------------------ registry (agents/__init__)
\* agent_id of every class in AGENT_CLASSES.
AGENT_CLASSES ==
    {"orchestrator", "crawler", "researcher", "viral_engineer", "comms",
     "devops", "archivist", "frontend_designer"}

\* AgentRegistry.__contains__
InRegistry(agent_id) == agent_id \in AGENT_CLASSES

\* An id the orchestrator's answer may name although no agent has it.
UnknownIds == {"unknown_x"}

\* Ids the orchestrator's answer delegates to (the input of a run).
DelegateIds == {"crawler", "unknown_x"}

\* The rows of the agents table: one per registered agent.
AgentRows == AGENT_CLASSES

\* Every id a per-agent lock can be asked for.
LockIds == AGENT_CLASSES \cup UnknownIds

\* The agents that are clocked in when the model starts; the others are
\* "Clocked Out" (the state a bulk override leaves them in).
ClockedIn == {"crawler"}

\* ----------------------------------------------------------- graph.py
\* NodeName of the node wrapper that calls registry[agent_id].process.
NodeOf(agent_id) ==
    CASE agent_id = "orchestrator" -> "Orchestrator"
      [] agent_id = "crawler" -> "Crawler"
      [] agent_id = "researcher" -> "Researcher"
      [] agent_id = "viral_engineer" -> "ViralEngineer"
      [] agent_id = "comms" -> "Comms"
      [] agent_id = "devops" -> "DevOps"
      [] agent_id = "archivist" -> "Archivist"
      [] agent_id = "frontend_designer" -> "FrontendDesigner"

\* The agent a node runs (orchestrator_node .. frontend_designer_node).
AgentOfNode(node) == CHOOSE a \in AGENT_CLASSES : NodeOf(a) = node

\* Variant: route_from_orchestrator looks the head up in the registry
\* instead of its own agent_map.
route_from_orchestrator_registry(delegated) ==
    IF delegated = <<>> THEN END
    ELSE IF Head(delegated) \in AGENT_CLASSES
         THEN NodeOf(Head(delegated))
         ELSE END

\* route_from_orchestrator: END on an empty list, else agent_map.get(head, END).
route_from_orchestrator(delegated) ==
    IF delegated = <<>> THEN END
    ELSE IF Head(delegated) \in
              {"crawler", "researcher", "viral_engineer", "comms", "devops",
               "archivist", "frontend_designer"}
         THEN NodeOf(Head(delegated))
         ELSE END

\* Variant: route_after_research with its two answers swapped.
route_after_research_swapped(findings) ==
    IF findings THEN "Archivist" ELSE "ViralEngineer"

\* route_after_research
route_after_research(findings) ==
    IF findings THEN "ViralEngineer" ELSE "Archivist"

\* route_after_content
route_after_content == "Archivist"

\* Variant: should_run_health_check always asks for the health check.
should_run_health_check_always(error) == "DevOps"

\* should_run_health_check
should_run_health_check(error) == IF error THEN "DevOps" ELSE END

\* Variant: build_workflow sends the DevOps node on to the Archivist node.
NextNode_archive(node, st) ==
    CASE node = "Orchestrator" -> route_from_orchestrator(st.delegated)
      [] node = "Researcher" -> route_after_research(st.findings)
      [] node = "ViralEngineer" -> route_after_content
      [] node = "Crawler" -> "Archivist"
      [] node = "Comms" -> should_run_health_check(st.error)
      [] node = "DevOps" -> "Archivist"
      [] node = "Archivist" -> should_run_health_check(st.error)
      [] node = "FrontendDesigner" -> END

\* The edges build_workflow adds: the node that follows `node`.
NextNode(node, st) ==
    CASE node = "Orchestrator" -> route_from_orchestrator(st.delegated)
      [] node = "Researcher" -> route_after_research(st.findings)
      [] node = "ViralEngineer" -> route_after_content
      [] node = "Crawler" -> "Archivist"
      [] node = "Comms" -> should_run_health_check(st.error)
      [] node = "DevOps" -> END
      [] node = "Archivist" -> should_run_health_check(st.error)
      [] node = "FrontendDesigner" -> END

\* ---------------------------------------------------------------- state
VARIABLES
    agentStatus,     \* agents table: id -> status
    tasks,           \* tasks table: task id (index) -> row
    agentLocked,     \* _agent_locks[id]._locked
    agentWaiters,    \* _agent_locks[id]._waiters, oldest first
    dispatchLocked,  \* _dispatch_lock._locked
    run,             \* the queue consumer and the graph run it performs
    loop,            \* run_forever
    child,           \* the run_agent_queue coroutines of a sweep
    stream,          \* the Redis stream devswarm:task_queue and its group
    hist             \* what the queue consumer and its run have done so far

vars ==
    <<agentStatus, tasks, agentLocked, agentWaiters, dispatchLocked, run,
      loop, child, stream, hist>>

\* The two callers of dispatch_idle_agents.
Callers == {"loop", "runner"}

\* Priorities of the orchestrator's subtasks (SubtaskAssignment.priority).
Priorities == {3}

\* Agents in the order get_all_agents returns them (ORDER BY name).
NameOrder ==
    <<"archivist", "comms", "crawler", "devops", "frontend_designer",
      "orchestrator", "researcher", "viral_engineer">>

\* What a coroutine holds between two awaits: its position, the agent whose
\* process it is in, the task it works for, and the OfficeState fields the
\* routing and the dispatcher read.
NoCtx ==
    [pc |-> "none", agent |-> "", task |-> 0, error |-> FALSE,
     findings |-> FALSE, delegated |-> <<>>, taskIds |-> <<>>,
     parsed |-> <<>>, recov |-> {}, cur |-> "", response |-> FALSE,
     msgs |-> <<>>]

\* create_initial_state: a fresh OfficeState.
create_initial_state == NoCtx

\* The answers the orchestrator's chain can give: the subtasks, in order.
RECURSIVE SeqsUpTo(_, _)
SeqsUpTo(S, n) ==
    IF n = 0 THEN {<<>>}
    ELSE LET shorter == SeqsUpTo(S, n - 1)
         IN  shorter \cup
             {Append(q, x) : q \in {r \in shorter : Len(r) = n - 1}, x \in S}

Subtasks == [agent : DelegateIds, priority : Priorities]

\* Answers with meeting_required false: no agent is sent to a meeting.
OrchestratorOutputs == SeqsUpTo(Subtasks, MaxSubtasks)

\* OrchestratorRoutingOutput: the subtasks and whether `response` is
\* non-empty.  The answers of the goals that get no direct reply.
NoReplyAnswers == [subtasks : OrchestratorOutputs, response : {FALSE}]

\* Every id an answer can name: the registered ones and an unknown one.
AnyIds == AGENT_CLASSES \cup UnknownIds

\* Every answer: any ids as assignees, with or without a direct reply.
AllAnswers ==
    [subtasks : SeqsUpTo([agent : AnyIds, priority : Priorities], MaxSubtasks),
     response : BOOLEAN]

\* ------------------------------------------------------------ database.py
\* update_agent(agent_id, status=s): UPDATE ... WHERE id = agent_id.
update_agent(st, agent_id, s) ==
    IF agent_id \in DOMAIN st THEN [st EXCEPT ![agent_id] = s] ELSE st

\* update_task_status(task_id, s)
update_task_status(tk, task_id, s) ==
    IF task_id \in DOMAIN tk THEN [tk EXCEPT ![task_id].status = s] ELSE tk

\* create_task: a new row; its id is its position.
create_task(tk, s, prio, assignee) ==
    Append(tk, [status |-> s, agent |-> assignee, priority |-> prio,
                failed |-> FALSE, execs |-> 0])

\* get_tasks_by_agent: ORDER BY priority DESC, created_at DESC.  The ids of
\* the agent's rows whose status is pending, in that order.
Before(tk, a, b) ==
    \/ tk[a].priority > tk[b].priority
    \/ tk[a].priority = tk[b].priority /\ a > b

PendingOf(tk, agent_id) ==
    {t \in DOMAIN tk :
        tk[t].agent = agent_id /\ tk[t].status \in PENDING_TASK_STATUSES}

\* pending[0]
FirstPending(tk, agent_id) ==
    CHOOSE t \in PendingOf(tk, agent_id) :
        \A u \in PendingOf(tk, agent_id) \ {t} : Before(tk, t, u)

\* A process call made for task `t` failed (history of the run).
MarkFailed(tk, t) ==
    IF t \in DOMAIN tk THEN [tk EXCEPT ![t].failed = TRUE] ELSE tk

\* ----------------------------------------------------- asyncio.Lock
\* Lock.acquire takes the lock at once only when it is free and nobody
\* waits for it; otherwise the caller queues behind the waiters.
CanAcquire(id) == ~agentLocked[id] /\ agentWaiters[id] = <<>>

\* Variant: run_agent_queue does not look at the lock before `async with`.
AgentLockHeld_never(id) == FALSE

\* Lock.locked()
AgentLockHeld(id) == agentLocked[id]

\* Lock.release: the lock is free again; the oldest waiter is woken and
\* takes it when it next runs.
Released(id) == [agentLocked EXCEPT ![id] = FALSE]

\* ------------------------------------------------------ redis_client.py
\* The ids of the stream's entries: XADD numbers them in order.
ItemIds == 1..MaxRuns

\* What is remembered of the consumer: the item it handles, the ack_task
\* calls issued and the outcome of GraphExecutionService.run per item, the
\* calls the current run has made, the persistence operations of its
\* finalize_primary_task, whether the last dequeue_tasks came back empty,
\* how graph.ainvoke ended, the nodes the invocation has entered and
\* whether one of them left an error, and the exceptions and cancellations
\* so far.
NoHist ==
    [item |-> 0,
     acks |-> [i \in ItemIds |-> 0],
     outcome |-> [i \in ItemIds |-> "none"],
     calls |-> <<>>,
     fin |-> <<>>,
     empty |-> FALSE,
     graph |-> "none",
     path |-> <<>>,
     failed |-> FALSE,
     faults |-> 0,
     cancels |-> 0]

\* dequeue_tasks: XREADGROUP ... streams={stream: ">"}, count=1.  The group
\* hands out the first entry after its last-delivered id and keeps it in
\* its pending list; nothing new means an empty answer.
dequeue_tasks(st) ==
    IF st.last < st.added
    THEN [id |-> st.last + 1,
          st |-> [st EXCEPT !.last = st.last + 1,
                            !.pel = @ \cup {st.last + 1}]]
    ELSE [id |-> 0, st |-> st]

\* ack_task: XACK removes the id from the group's pending list.
ack_task(st, id) == [st EXCEPT !.pel = @ \ {id}]

\* enqueue_task: XADD appends an entry.
enqueue_task(st) == [st EXCEPT !.added = @ + 1]

Init ==
    /\ agentStatus =
         [a \in AgentRows |-> IF a \in ClockedIn THEN IDLE ELSE CLOCKED_OUT]
    /\ tasks = <<>>
    /\ agentLocked = [id \in LockIds |-> FALSE]
    /\ agentWaiters = [id \in LockIds |-> <<>>]
    /\ dispatchLocked = FALSE
    /\ run = [ctx |-> [NoCtx EXCEPT !.pc = "idle"], runs |-> 0, sweep |-> "none"]
    /\ loop = [pc |-> "sleep", sweep |-> "none"]
    /\ child = [c \in Callers |-> [w \in AgentRows |-> NoCtx]]
    /\ stream = [added |-> 0, last |-> 0, pel |-> {}]
    /\ hist = NoHist

\* ------------------------------------------------ core/base_agent.py
\* Positions inside BaseAgent.process: the call is in flight at each.
ProcessPCs ==
    {"proc_begin", "proc_chain", "orch_create", "orch_working", "orch_reply",
     "dv_read", "dv_recover", "proc_idle", "proc_log", "proc_fail",
     "proc_faillog"}

\* OrchestratorAgent.execute after the loop over the subtasks: the direct
\* reply when there is one, else the return to process.
AfterSubtasks(c) == IF c.response THEN "orch_reply" ELSE "proc_idle"

Outcome(c, st, tk) == [ctx |-> c, st |-> st, tk |-> tk]

\* Variant: OrchestratorAgent.execute creates every task In Progress.
OrchCreate_inprogress(c, st, tk) ==
    LET i == Len(c.taskIds) + 1
        sub == c.parsed[i]
        tk2 == create_task(tk, IN_PROGRESS, sub.priority, sub.agent)
        c2 == [c EXCEPT !.taskIds = Append(@, Len(tk2))]
    IN  IF i = 1
        THEN Outcome([c2 EXCEPT !.pc = "orch_working"], st, tk2)
        ELSE Outcome([c2 EXCEPT !.delegated = Append(@, sub.agent),
                                !.msgs = Append(@, <<"delegation", sub.agent>>),
                                !.pc = IF i = Len(c.parsed)
                                       THEN AfterSubtasks(c)
                                       ELSE "orch_create"],
                     st, tk2)

\* OrchestratorAgent.execute, one subtask: create_task (In Progress for the
\* first, Backlog for the others), and delegated_to / delegated_task_ids.
OrchCreate(c, st, tk) ==
    LET i == Len(c.taskIds) + 1
        sub == c.parsed[i]
        status == IF i = 1 THEN IN_PROGRESS ELSE BACKLOG
        tk2 == create_task(tk, status, sub.priority, sub.agent)
        c2 == [c EXCEPT !.taskIds = Append(@, Len(tk2))]
    IN  IF i = 1
        THEN Outcome([c2 EXCEPT !.pc = "orch_working"], st, tk2)
        ELSE Outcome([c2 EXCEPT !.delegated = Append(@, sub.agent),
                                !.msgs = Append(@, <<"delegation", sub.agent>>),
                                !.pc = IF i = Len(c.parsed)
                                       THEN AfterSubtasks(c)
                                       ELSE "orch_create"],
                     st, tk2)

\* OrchestratorAgent.execute, the first subtask only: its assignee is set
\* Working before the delegation message is sent.
OrchWorking(c, st, tk) ==
    LET sub == c.parsed[1]
    IN  Outcome([c EXCEPT !.delegated = Append(@, sub.agent),
                          !.msgs = Append(@, <<"delegation", sub.agent>>),
                          !.pc = IF Len(c.parsed) = 1 THEN AfterSubtasks(c)
                                 ELSE "orch_create"],
                update_agent(st, sub.agent, WORKING), tk)

\* OrchestratorAgent.execute: parsed.response is sent to the user as a chat
\* message.
OrchReply(c, st, tk) ==
    Outcome([c EXCEPT !.msgs = Append(@, <<"chat", "user">>),
                      !.pc = "proc_idle"],
            st, tk)

\* DevOpsAgent.execute: get_all_agents, and the agents whose status is Error.
DevOpsRead(c, st, tk) ==
    LET error_agents == {a \in DOMAIN st : st[a] = ERROR}
    IN  Outcome([c EXCEPT !.recov = error_agents,
                          !.pc = IF error_agents = {} THEN "proc_idle"
                                 ELSE "dv_recover"],
                st, tk)

\* DevOpsAgent.execute: the next error agent, in the order of the list, is
\* set Idle; after the last one state["error"] is cleared.
DevOpsRecover(c, st, tk) ==
    LET k == CHOOSE k \in 1..Len(NameOrder) :
                 /\ NameOrder[k] \in c.recov
                 /\ \A j \in 1..(k - 1) : NameOrder[j] \notin c.recov
        a == NameOrder[k]
        left == c.recov \ {a}
    IN  Outcome([c EXCEPT !.recov = left,
                          !.error = IF left = {} THEN FALSE ELSE @,
                          !.pc = IF left = {} THEN "proc_idle"
                                 ELSE "dv_recover"],
                update_agent(st, a, IDLE), tk)

\* The chain's answer is applied by execute(); what execute() awaits first.
\* `answers` are the answers the orchestrator's chain can give.
AfterChainOf(c, answers) ==
    CASE c.agent = "orchestrator" ->
           {[c EXCEPT !.parsed = a.subtasks,
                      !.response = a.response,
                      !.pc = IF a.subtasks # <<>> THEN "orch_create"
                             ELSE IF a.response THEN "orch_reply"
                             ELSE "proc_idle"]
              : a \in answers}
      [] c.agent = "devops" -> {[c EXCEPT !.pc = "dv_read"]}
      [] c.agent = "researcher" ->
           {[c EXCEPT !.findings = TRUE, !.pc = "proc_idle"]}
      [] OTHER -> {[c EXCEPT !.pc = "proc_idle"]}

AfterChain(c) == AfterChainOf(c, NoReplyAnswers)

\* BaseAgent.process, one step of it: the outcomes of the step that a
\* coroutine at c.pc takes on the tables st (agents) and tk (tasks).
ProcessStepOf(c, st, tk, answers) ==
    CASE c.pc = "proc_begin" ->
           {Outcome([c EXCEPT !.pc = "proc_chain"],
                    update_agent(st, c.agent, WORKING), tk)}
      [] c.pc = "proc_chain" ->
           {Outcome(c2, st, tk) : c2 \in AfterChainOf(c, answers)}
             \cup {Outcome([c EXCEPT !.pc = "proc_fail"], st, tk)}
      [] c.pc = "orch_create" -> {OrchCreate(c, st, tk)}
      [] c.pc = "orch_working" -> {OrchWorking(c, st, tk)}
      [] c.pc = "orch_reply" -> {OrchReply(c, st, tk)}
      [] c.pc = "dv_read" -> {DevOpsRead(c, st, tk)}
      [] c.pc = "dv_recover" -> {DevOpsRecover(c, st, tk)}
      [] c.pc = "proc_idle" ->
           {Outcome([c EXCEPT !.pc = "proc_log"],
                    update_agent(st, c.agent, IDLE), tk)}
      [] c.pc = "proc_log" ->
           {Outcome([c EXCEPT !.pc = "proc_ret"], st, tk)}
      [] c.pc = "proc_fail" ->
           {Outcome([c EXCEPT !.pc = "proc_faillog"],
                    update_agent(st, c.agent, ERROR), tk)}
      [] c.pc = "proc_faillog" ->
           {Outcome([c EXCEPT !.error = TRUE, !.pc = "proc_ret"],
                    st, MarkFailed(tk, c.task))}

ProcessStep(c, st, tk) == ProcessStepOf(c, st, tk, NoReplyAnswers)

\* ------------------------------------- services/agent_dispatcher.py
\* Positions at which a coroutine writes a task's final status and notifies.
SettlePCs ==
    {"mtf_get", "mtf_review", "mtf_done", "ok_notify", "blk_write",
     "fail_notify"}

\* Variant: move_task_forward writes Done without the Review write.
move_task_forward_direct(c, tk) ==
    CASE c.pc = "mtf_get" ->
           LET current_status == tk[c.task].status
           IN  [ctx |-> [c EXCEPT !.cur = current_status,
                                  !.pc = IF current_status \in {DONE, BLOCKED}
                                         THEN "ok_notify"
                                         ELSE "mtf_done"],
                tk |-> tk]
      [] c.pc = "mtf_review" ->
           [ctx |-> [c EXCEPT !.pc = "mtf_done"], tk |-> tk]
      [] c.pc = "mtf_done" ->
           [ctx |-> [c EXCEPT !.pc = "ok_notify"],
            tk |-> update_task_status(tk, c.task, DONE)]

\* move_task_forward: get_task; nothing for a Done or Blocked task; else
\* Review (unless already there) and then Done.
move_task_forward(c, tk) ==
    CASE c.pc = "mtf_get" ->
           LET current_status == tk[c.task].status
           IN  [ctx |-> [c EXCEPT !.cur = current_status,
                                  !.pc = IF current_status \in {DONE, BLOCKED}
                                         THEN "ok_notify"
                                         ELSE IF current_status # REVIEW
                                              THEN "mtf_review"
                                              ELSE "mtf_done"],
                tk |-> tk]
      [] c.pc = "mtf_review" ->
           [ctx |-> [c EXCEPT !.pc = "mtf_done"],
            tk |-> update_task_status(tk, c.task, REVIEW)]
      [] c.pc = "mtf_done" ->
           [ctx |-> [c EXCEPT !.pc = "ok_notify"],
            tk |-> update_task_status(tk, c.task, DONE)]

\* The failure branch of execute_assigned_task and finalize_primary_task:
\* update_task_status(task_id, Blocked), then _notify_task_failure.
mark_blocked(c, tk) ==
    [ctx |-> [c EXCEPT !.pc = "fail_notify"],
     tk |-> update_task_status(tk, c.task, BLOCKED)]

\* One status-writing step of a coroutine at a settle position.
SettleStep(c, tk) ==
    IF c.pc = "blk_write" THEN mark_blocked(c, tk)
    ELSE move_task_forward(c, tk)

\* Variant: dispatch_idle_agents does not look at the global lock.
DispatchLockHeld_never == FALSE

\* self._dispatch_lock.locked()
DispatchLockHeld == dispatchLocked

\* dispatch_idle_agents, the scan: Idle agents that are registered.
IdleIds(st) == {a \in DOMAIN st : st[a] = IDLE /\ InRegistry(a)}

\* asyncio.gather: one run_agent_queue coroutine per idle agent.
Spawn(c, idle_ids) ==
    [child EXCEPT ![c] =
        [w \in AgentRows |->
            IF w \in idle_ids THEN [NoCtx EXCEPT !.pc = "raq_start", !.agent = w]
            ELSE NoCtx]]

\* gather returns when every coroutine it started has returned.
AllReturned(c) ==
    \A w \in AgentRows : child[c][w].pc \in {"none", "done", "skipped", "raised"}

\* The per-agent lock a coroutine is identified by when it waits.
RunnerId == <<"runner", "">>

ChildId(c, w) == <<c, w>>

\* Counter of execute_assigned_task runs of a task that reach process.
CountExec(tk, t) ==
    [tk EXCEPT ![t].execs = IF @ < 2 THEN @ + 1 ELSE @]

\* --------------------------------------------- the callers of a sweep
CallerPc(c) == IF c = "loop" THEN loop.pc ELSE run.ctx.pc

\* Where a caller continues after dispatch_idle_agents returned.
AfterSweep(c) == IF c = "loop" THEN "sleep" ELSE "run_log"

SetCaller(c, pc, sweep) ==
    IF c = "loop"
    THEN /\ loop' = [pc |-> pc, sweep |-> sweep]
         /\ UNCHANGED run
    ELSE /\ run' = [run EXCEPT !.ctx.pc = pc, !.sweep = sweep]
         /\ UNCHANGED loop

\* dispatch_idle_agents, up to its first await: return if the global lock
\* is held, else take it and ask for the agents.
dispatch_idle_agents(c) ==
    IF DispatchLockHeld
    THEN /\ SetCaller(c, AfterSweep(c), "skipped")
         /\ UNCHANGED dispatchLocked
    ELSE /\ SetCaller(c, "d_list", "body")
         /\ dispatchLocked' = TRUE

\* dispatch_idle_agents: get_all_agents answered; return (releasing the
\* lock) if nobody is idle, else gather the run_agent_queue coroutines.
SweepList(c) ==
    /\ CallerPc(c) = "d_list"
    /\ LET idle_ids == IdleIds(agentStatus)
       IN  IF idle_ids = {}
           THEN /\ SetCaller(c, AfterSweep(c), "none")
                /\ dispatchLocked' = FALSE
                /\ UNCHANGED child
           ELSE /\ SetCaller(c, "d_join", "body")
                /\ child' = Spawn(c, idle_ids)
                /\ UNCHANGED dispatchLocked
    /\ UNCHANGED <<agentStatus, tasks, agentLocked, agentWaiters>>
    /\ UNCHANGED <<stream, hist>>

\* dispatch_idle_agents: gather returned; the global lock is released.
SweepJoin(c) ==
    /\ CallerPc(c) = "d_join"
    /\ AllReturned(c)
    /\ SetCaller(c, AfterSweep(c), "none")
    /\ child' = [child EXCEPT ![c] = [w \in AgentRows |-> NoCtx]]
    /\ dispatchLocked' = FALSE
    /\ UNCHANGED <<agentStatus, tasks, agentLocked, agentWaiters>>
    /\ UNCHANGED <<stream, hist>>

\* run_forever: the sleep is over, the next dispatch_idle_agents begins.
LoopTick ==
    /\ loop.pc = "sleep"
    /\ dispatch_idle_agents("loop")
    /\ UNCHANGED <<agentStatus, tasks, agentLocked, agentWaiters, child>>
    /\ UNCHANGED <<stream, hist>>

\* ------------------------------- services/graph_execution.py, graph.py
\* trigger_task: enqueue_task puts a submitted goal on the stream.
Trigger ==
    /\ stream.added < MaxRuns
    /\ stream' = enqueue_task(stream)
    /\ UNCHANGED <<agentStatus, tasks, agentLocked, agentWaiters,
                   dispatchLocked, run, loop, child, hist>>

\* TaskQueueWorker.run: dequeue_tasks returned an item; its goal is handed
\* to GraphExecutionService.run, whose graph.ainvoke enters the
\* orchestrator node.
RunStart ==
    /\ run.ctx.pc = "idle"
    /\ LET d == dequeue_tasks(stream)
       IN  /\ d.id # 0
           /\ stream' = d.st
           /\ hist' = [hist EXCEPT !.item = d.id, !.calls = <<>>,
                                   !.fin = <<>>, !.empty = FALSE,
                                   !.graph = "running",
                                   !.path = <<"Orchestrator">>,
                                   !.failed = FALSE]
    /\ run' = [ctx |-> [create_initial_state EXCEPT !.pc = "proc_begin",
                                                 !.agent = "orchestrator"],
               runs |-> run.runs + 1,
               sweep |-> "none"]
    /\ UNCHANGED <<agentStatus, tasks, agentLocked, agentWaiters,
                   dispatchLocked, loop, child>>

\* TaskQueueWorker.run: dequeue_tasks returned nothing within block_ms; the
\* loop asks again.
DequeueEmpty ==
    /\ run.ctx.pc = "idle"
    /\ dequeue_tasks(stream).id = 0
    /\ ~hist.empty
    /\ hist' = [hist EXCEPT !.empty = TRUE]
    /\ UNCHANGED <<agentStatus, tasks, agentLocked, agentWaiters,
                   dispatchLocked, run, loop, child, stream>>

\* Variant: a node that left an error is run again.
GraphContinue_retry(c) ==
    LET next == NextNode(NodeOf(c.agent), c)
    IN  IF c.error THEN [c EXCEPT !.pc = "proc_begin"]
        ELSE IF next = END THEN [c EXCEPT !.pc = "graph_ret"]
        ELSE [c EXCEPT !.pc = "proc_begin",
                       !.agent = AgentOfNode(next),
                       !.task = IF c.agent = "orchestrator"
                                THEN c.taskIds[1] ELSE 0]

\* A node returned: the graph follows its edge to the next node, or ends.
\* The node after the orchestrator works for the first delegated task.
GraphContinue(c) ==
    LET next == NextNode(NodeOf(c.agent), c)
    IN  IF next = END THEN [c EXCEPT !.pc = "graph_ret"]
        ELSE [c EXCEPT !.pc = "proc_begin",
                       !.agent = AgentOfNode(next),
                       !.task = IF c.agent = "orchestrator"
                                THEN c.taskIds[1] ELSE 0]

\* One step of the node the graph run is in, the orchestrator's chain
\* answering with one of `answers`.
GraphStep(answers) ==
    /\ run.ctx.pc \in ProcessPCs
    /\ \E o \in ProcessStepOf(run.ctx, agentStatus, tasks, answers) :
         LET c2 == IF o.ctx.pc = "proc_ret" THEN GraphContinue(o.ctx)
                   ELSE o.ctx
         IN  /\ run' = [run EXCEPT !.ctx = c2]
             /\ agentStatus' = o.st
             /\ tasks' = o.tk
             /\ hist' = [hist EXCEPT
                           !.path = IF o.ctx.pc = "proc_ret"
                                       /\ c2.pc = "proc_begin"
                                    THEN Append(@, NodeOf(c2.agent))
                                    ELSE @,
                           !.failed = @ \/ o.ctx.error]
    /\ UNCHANGED <<agentLocked, agentWaiters, dispatchLocked, loop, child>>
    /\ UNCHANGED stream

\* One step of the node the graph run is in.
GraphNode == GraphStep(NoReplyAnswers)

\* GraphExecutionService.run calls finalize_primary_task: nothing to do
\* without a delegation (then dispatch_idle_agents follows at once), else
\* get_task for the first task.
FinalizeStart ==
    /\ run.ctx.pc = "graph_ret"
    /\ IF run.ctx.delegated = <<>> \/ run.ctx.taskIds = <<>>
       THEN /\ dispatch_idle_agents("runner")
            /\ hist' = [hist EXCEPT !.calls = @ \o <<"finalize", "dispatch">>,
                                    !.graph = "returned"]
       ELSE /\ run' = [run EXCEPT !.ctx.pc = "fin_get",
                                  !.ctx.agent = run.ctx.delegated[1],
                                  !.ctx.task = run.ctx.taskIds[1]]
            /\ hist' = [hist EXCEPT !.calls = Append(@, "finalize"),
                                    !.fin = Append(@, "get_task"),
                                    !.graph = "returned"]
            /\ UNCHANGED <<dispatchLocked, loop>>
    /\ UNCHANGED <<agentStatus, tasks, agentLocked, agentWaiters, child,
                   stream>>

\* The first await inside `async with lock` of finalize_primary_task.
FinalizeBody(c) == IF c.error THEN "blk_write" ELSE "mtf_get"

\* Variant: finalize_primary_task enters its section without the lock.
FinalizeAcquire_nolock ==
    /\ run.ctx.pc = "fin_get"
    /\ run' = [run EXCEPT !.ctx.pc = FinalizeBody(run.ctx)]
    /\ UNCHANGED <<agentStatus, tasks, agentLocked, agentWaiters,
                   dispatchLocked, loop, child>>
    /\ UNCHANGED <<stream, hist>>

\* Variant: finalize_primary_task returns when it finds the lock held, as
\* run_agent_queue does.
FinalizeAcquire_skip ==
    /\ run.ctx.pc = "fin_get"
    /\ LET id == run.ctx.agent
       IN  IF AgentLockHeld(id)
           THEN /\ dispatch_idle_agents("runner")
                /\ UNCHANGED agentLocked
           ELSE /\ agentLocked' = [agentLocked EXCEPT ![id] = TRUE]
                /\ run' = [run EXCEPT !.ctx.pc = FinalizeBody(run.ctx)]
                /\ UNCHANGED <<dispatchLocked, loop>>
    /\ UNCHANGED <<agentStatus, tasks, agentWaiters, child>>
    /\ UNCHANGED <<stream, hist>>

\* finalize_primary_task: `async with lock` takes the primary agent's lock
\* or waits for it.
FinalizeAcquire ==
    /\ run.ctx.pc = "fin_get"
    /\ LET id == run.ctx.agent
       IN  IF CanAcquire(id)
           THEN /\ agentLocked' = [agentLocked EXCEPT ![id] = TRUE]
                /\ run' = [run EXCEPT !.ctx.pc = FinalizeBody(run.ctx)]
                /\ UNCHANGED agentWaiters
           ELSE /\ agentWaiters' =
                     [agentWaiters EXCEPT ![id] = Append(@, RunnerId)]
                /\ run' = [run EXCEPT !.ctx.pc = "fin_wait"]
                /\ UNCHANGED agentLocked
    /\ UNCHANGED <<agentStatus, tasks, dispatchLocked, loop, child>>
    /\ UNCHANGED <<stream, hist>>

\* finalize_primary_task: the lock was released and this waiter woken.
FinalizeWake ==
    /\ run.ctx.pc = "fin_wait"
    /\ LET id == run.ctx.agent
       IN  /\ ~agentLocked[id]
           /\ agentWaiters[id] # <<>>
           /\ Head(agentWaiters[id]) = RunnerId
           /\ agentWaiters' = [agentWaiters EXCEPT ![id] = Tail(@)]
           /\ agentLocked' = [agentLocked EXCEPT ![id] = TRUE]
    /\ run' = [run EXCEPT !.ctx.pc = FinalizeBody(run.ctx)]
    /\ UNCHANGED <<agentStatus, tasks, dispatchLocked, loop, child>>
    /\ UNCHANGED <<stream, hist>>

\* The persistence operation a coroutine at a settle position performs.
SettleOps(pc) ==
    CASE pc = "blk_write" -> <<"status:Blocked">>
      [] pc = "mtf_get" -> <<"get_task">>
      [] pc = "mtf_review" -> <<"status:Review">>
      [] pc = "mtf_done" -> <<"status:Done">>
      [] pc = "fail_notify" -> <<"msg:error", "msg:chat">>
      [] pc = "ok_notify" ->
           <<"msg:task_complete", "msg:chat", "act:task_completed">>

\* finalize_primary_task under the lock: Blocked, or move_task_forward.
FinalizeSettle ==
    /\ run.ctx.pc \in {"blk_write", "mtf_get", "mtf_review", "mtf_done"}
    /\ LET o == SettleStep(run.ctx, tasks)
       IN  /\ run' = [run EXCEPT !.ctx = o.ctx]
           /\ tasks' = o.tk
    /\ hist' = [hist EXCEPT !.fin = @ \o SettleOps(run.ctx.pc)]
    /\ UNCHANGED <<agentStatus, agentLocked, agentWaiters, dispatchLocked,
                   loop, child, stream>>

\* Variant: GraphExecutionService.run does not call dispatch_idle_agents
\* after finalize_primary_task.
FinalizeReturn_nodispatch ==
    /\ run.ctx.pc \in {"ok_notify", "fail_notify"}
    /\ agentLocked' = Released(run.ctx.agent)
    /\ run' = [run EXCEPT !.ctx.pc = "run_log"]
    /\ hist' = [hist EXCEPT !.fin = @ \o SettleOps(run.ctx.pc)]
    /\ UNCHANGED <<agentStatus, tasks, agentWaiters, dispatchLocked, loop,
                   child, stream>>

\* finalize_primary_task: the notifications are sent, the lock is released
\* and GraphExecutionService.run goes on to dispatch_idle_agents.
FinalizeReturn ==
    /\ run.ctx.pc \in {"ok_notify", "fail_notify"}
    /\ agentLocked' = Released(run.ctx.agent)
    /\ dispatch_idle_agents("runner")
    /\ hist' = [hist EXCEPT !.fin = @ \o SettleOps(run.ctx.pc),
                            !.calls = Append(@, "dispatch")]
    /\ UNCHANGED <<agentStatus, tasks, agentWaiters, child, stream>>

\* GraphExecutionService.run logs graph_complete and returns to
\* TaskQueueWorker.run.
RunEnd ==
    /\ run.ctx.pc = "run_log"
    /\ run' = [run EXCEPT !.ctx.pc = "w_ack"]
    /\ hist' = [hist EXCEPT !.calls = Append(@, "graph_complete"),
                            !.outcome[hist.item] = "returned"]
    /\ UNCHANGED <<agentStatus, tasks, agentLocked, agentWaiters,
                   dispatchLocked, loop, child, stream>>

\* TaskQueueWorker.run: ack_task for the item just handled, then the loop
\* goes back to dequeue_tasks.
Ack ==
    /\ run.ctx.pc = "w_ack"
    /\ stream' = ack_task(stream, hist.item)
    /\ hist' = [hist EXCEPT !.acks[hist.item] = IF @ < 2 THEN @ + 1 ELSE @]
    /\ run' = [run EXCEPT !.ctx = [NoCtx EXCEPT !.pc = "idle"]]
    /\ UNCHANGED <<agentStatus, tasks, agentLocked, agentWaiters,
                   dispatchLocked, loop, child>>

\* ------------------------------------------------ run_agent_queue
SetChild(c, w, ctx) == child' = [child EXCEPT ![c][w] = ctx]

\* run_agent_queue, up to its first await: return if the agent's lock is
\* held, else `async with lock` and get_agent.
RaqStart(c, w) ==
    /\ child[c][w].pc = "raq_start"
    /\ IF AgentLockHeld(w)
       THEN /\ SetChild(c, w, [child[c][w] EXCEPT !.pc = "skipped"])
            /\ UNCHANGED <<agentLocked, agentWaiters>>
       ELSE IF CanAcquire(w)
            THEN /\ agentLocked' = [agentLocked EXCEPT ![w] = TRUE]
                 /\ SetChild(c, w, [child[c][w] EXCEPT !.pc = "raq_agent"])
                 /\ UNCHANGED agentWaiters
            ELSE /\ agentWaiters' =
                      [agentWaiters EXCEPT ![w] = Append(@, ChildId(c, w))]
                 /\ SetChild(c, w, [child[c][w] EXCEPT !.pc = "raq_wait"])
                 /\ UNCHANGED agentLocked
    /\ UNCHANGED <<agentStatus, tasks, dispatchLocked, run, loop>>
    /\ UNCHANGED <<stream, hist>>

\* run_agent_queue queued behind a woken waiter and is woken in its turn.
RaqWake(c, w) ==
    /\ child[c][w].pc = "raq_wait"
    /\ ~agentLocked[w]
    /\ agentWaiters[w] # <<>>
    /\ Head(agentWaiters[w]) = ChildId(c, w)
    /\ agentWaiters' = [agentWaiters EXCEPT ![w] = Tail(@)]
    /\ agentLocked' = [agentLocked EXCEPT ![w] = TRUE]
    /\ SetChild(c, w, [child[c][w] EXCEPT !.pc = "raq_agent"])
    /\ UNCHANGED <<agentStatus, tasks, dispatchLocked, run, loop>>
    /\ UNCHANGED <<stream, hist>>

\* Variant: run_agent_queue goes on whatever status get_agent returned.
RaqAgent_nostatus(c, w) ==
    /\ child[c][w].pc = "raq_agent"
    /\ IF w \notin DOMAIN agentStatus
       THEN /\ SetChild(c, w, [child[c][w] EXCEPT !.pc = "done"])
            /\ agentLocked' = Released(w)
       ELSE /\ SetChild(c, w, [child[c][w] EXCEPT !.pc = "raq_tasks"])
            /\ UNCHANGED agentLocked
    /\ UNCHANGED <<agentStatus, tasks, agentWaiters, dispatchLocked, run, loop>>
    /\ UNCHANGED <<stream, hist>>

\* run_agent_queue: get_agent answered; return when the agent is busy.
RaqAgent(c, w) ==
    /\ child[c][w].pc = "raq_agent"
    /\ IF w \notin DOMAIN agentStatus \/ agentStatus[w] \in BUSY_AGENT_STATUSES
       THEN /\ SetChild(c, w, [child[c][w] EXCEPT !.pc = "done"])
            /\ agentLocked' = Released(w)
       ELSE /\ SetChild(c, w, [child[c][w] EXCEPT !.pc = "raq_tasks"])
            /\ UNCHANGED agentLocked
    /\ UNCHANGED <<agentStatus, tasks, agentWaiters, dispatchLocked, run, loop>>
    /\ UNCHANGED <<stream, hist>>

\* execute_assigned_task, up to its first await, for the task row `t` as
\* get_tasks_by_agent returned it.
execute_assigned_task(ctx, agent_id, t, tk) ==
    IF ~InRegistry(agent_id)
    THEN [ctx EXCEPT !.task = t, !.cur = tk[t].status, !.pc = "blk_write"]
    ELSE [ctx EXCEPT !.task = t, !.cur = tk[t].status,
                     !.pc = IF tk[t].status # IN_PROGRESS THEN "ex_inprog"
                            ELSE "ex_working"]

\* run_agent_queue: get_tasks_by_agent answered; return when nothing is
\* pending, else execute_assigned_task(agent_id, pending[0]).
RaqTasks(c, w) ==
    /\ child[c][w].pc = "raq_tasks"
    /\ IF PendingOf(tasks, w) = {}
       THEN /\ SetChild(c, w, [child[c][w] EXCEPT !.pc = "done"])
            /\ agentLocked' = Released(w)
       ELSE /\ SetChild(c, w,
                  execute_assigned_task(child[c][w], w,
                                        FirstPending(tasks, w), tasks))
            /\ UNCHANGED agentLocked
    /\ UNCHANGED <<agentStatus, tasks, agentWaiters, dispatchLocked, run, loop>>
    /\ UNCHANGED <<stream, hist>>

\* execute_assigned_task: the task is marked In Progress.
ExecInProgress(c, w) ==
    /\ child[c][w].pc = "ex_inprog"
    /\ tasks' = update_task_status(tasks, child[c][w].task, IN_PROGRESS)
    /\ SetChild(c, w, [child[c][w] EXCEPT !.pc = "ex_working"])
    /\ UNCHANGED <<agentStatus, agentLocked, agentWaiters, dispatchLocked,
                   run, loop>>
    /\ UNCHANGED <<stream, hist>>

\* execute_assigned_task: the agent is set Working, and process is called
\* on a fresh state.
ExecWorking(c, w) ==
    /\ child[c][w].pc = "ex_working"
    /\ agentStatus' = update_agent(agentStatus, w, WORKING)
    /\ tasks' = CountExec(tasks, child[c][w].task)
    /\ SetChild(c, w, [create_initial_state EXCEPT
                           !.pc = "proc_begin", !.agent = w,
                           !.task = child[c][w].task,
                           !.cur = child[c][w].cur])
    /\ UNCHANGED <<agentLocked, agentWaiters, dispatchLocked, run, loop>>
    /\ UNCHANGED <<stream, hist>>

\* Variant: execute_assigned_task returns when process has, without moving
\* the task forward or blocking it.
ExecContinue_unsettled(ctx) ==
    [ctx EXCEPT !.pc = "raq_agent"]

\* execute_assigned_task: process returned; a result with an error raises.
ExecContinue(ctx) ==
    [ctx EXCEPT !.pc = IF ctx.error THEN "blk_write" ELSE "mtf_get"]

\* One step of the process call execute_assigned_task made.
ExecProcess(c, w) ==
    /\ child[c][w].pc \in ProcessPCs
    /\ \E o \in ProcessStep(child[c][w], agentStatus, tasks) :
         /\ SetChild(c, w, IF o.ctx.pc = "proc_ret" THEN ExecContinue(o.ctx)
                           ELSE o.ctx)
         /\ agentStatus' = o.st
         /\ tasks' = o.tk
    /\ UNCHANGED <<agentLocked, agentWaiters, dispatchLocked, run, loop>>
    /\ UNCHANGED <<stream, hist>>

\* execute_assigned_task: Blocked, or move_task_forward.
ExecSettle(c, w) ==
    /\ child[c][w].pc \in {"blk_write", "mtf_get", "mtf_review", "mtf_done"}
    /\ LET o == SettleStep(child[c][w], tasks)
       IN  /\ SetChild(c, w, o.ctx)
           /\ tasks' = o.tk
    /\ UNCHANGED <<agentStatus, agentLocked, agentWaiters, dispatchLocked,
                   run, loop>>
    /\ UNCHANGED <<stream, hist>>

\* execute_assigned_task returned after its notifications; run_agent_queue
\* loops and asks for the agent again.
ExecReturn(c, w) ==
    /\ child[c][w].pc \in {"ok_notify", "fail_notify"}
    /\ SetChild(c, w, [child[c][w] EXCEPT !.pc = "raq_agent"])
    /\ UNCHANGED <<agentStatus, tasks, agentLocked, agentWaiters,
                   dispatchLocked, run, loop>>
    /\ UNCHANGED <<stream, hist>>

\* ----------------------------------------------- exceptions, cancellation
\* The calls GraphExecutionService.run awaits may raise: graph.ainvoke,
\* finalize_primary_task, dispatch_idle_agents and log_activity.  What the
\* run_agent_queue coroutines raise stays inside asyncio.gather
\* (return_exceptions=True) and is not modelled.
CanFault == hist.faults < MaxFaults

Faulted(h) == [h EXCEPT !.faults = @ + 1]

\* BaseAgent.process, except branch: update_agent(Error) or log_activity
\* raises; the exception leaves process, the node and graph.ainvoke, and
\* GraphExecutionService.run catches it.
GraphRaise ==
    /\ CanFault
    /\ run.ctx.pc \in {"proc_fail", "proc_faillog"}
    /\ run' = [run EXCEPT !.ctx.pc = "run_except"]
    /\ tasks' = MarkFailed(tasks, run.ctx.task)
    /\ hist' = [Faulted(hist) EXCEPT !.graph = "raised"]
    /\ UNCHANGED <<agentStatus, agentLocked, agentWaiters, dispatchLocked,
                   loop, child, stream>>

\* Variant: the exception leaves finalize_primary_task with the lock held
\* (acquire without `async with`).
FinalizeRaise_held ==
    /\ CanFault
    /\ run.ctx.pc \in {"fin_get"} \cup SettlePCs
    /\ LET pc == run.ctx.pc
           ops == IF pc \in {"ok_notify", "fail_notify"} THEN SettleOps(pc)
                  ELSE <<>>
       IN  /\ \E k \in 0..(IF ops = <<>> THEN 0 ELSE Len(ops) - 1) :
                 hist' = [Faulted(hist) EXCEPT !.fin = @ \o SubSeq(ops, 1, k)]
           /\ agentLocked' = agentLocked
    /\ run' = [run EXCEPT !.ctx.pc = "run_except"]
    /\ UNCHANGED <<agentStatus, tasks, agentWaiters, dispatchLocked, loop,
                   child, stream>>

\* finalize_primary_task: a persistence call raises; `async with` releases
\* the lock if it was taken, and GraphExecutionService.run catches.  Of the
\* notifications, those sent before the one that raised stay sent.
FinalizeRaise ==
    /\ CanFault
    /\ run.ctx.pc \in {"fin_get"} \cup SettlePCs
    /\ LET pc == run.ctx.pc
           ops == IF pc \in {"ok_notify", "fail_notify"} THEN SettleOps(pc)
                  ELSE <<>>
       IN  /\ \E k \in 0..(IF ops = <<>> THEN 0 ELSE Len(ops) - 1) :
                 hist' = [Faulted(hist) EXCEPT !.fin = @ \o SubSeq(ops, 1, k)]
           /\ agentLocked' = IF pc \in SettlePCs THEN Released(run.ctx.agent)
                             ELSE agentLocked
    /\ run' = [run EXCEPT !.ctx.pc = "run_except"]
    /\ UNCHANGED <<agentStatus, tasks, agentWaiters, dispatchLocked, loop,
                   child, stream>>

\* dispatch_idle_agents called by GraphExecutionService.run: get_all_agents
\* raises; `async with` releases the global lock.
DispatchRaise ==
    /\ CanFault
    /\ run.ctx.pc = "d_list"
    /\ dispatchLocked' = FALSE
    /\ run' = [run EXCEPT !.ctx.pc = "run_except", !.sweep = "none"]
    /\ hist' = Faulted(hist)
    /\ UNCHANGED <<agentStatus, tasks, agentLocked, agentWaiters, loop, child,
                   stream>>

\* GraphExecutionService.run: log_activity("graph_complete") raises.
LogRaise ==
    /\ CanFault
    /\ run.ctx.pc = "run_log"
    /\ run' = [run EXCEPT !.ctx.pc = "run_except"]
    /\ hist' = Faulted(hist)
    /\ UNCHANGED <<agentStatus, tasks, agentLocked, agentWaiters,
                   dispatchLocked, loop, child, stream>>

\* GraphExecutionService.run, except branch: graph_error is logged and run
\* returns to TaskQueueWorker.run.
RunExcept ==
    /\ run.ctx.pc = "run_except"
    /\ run' = [run EXCEPT !.ctx.pc = "w_ack"]
    /\ hist' = [hist EXCEPT !.calls = Append(@, "graph_error"),
                            !.outcome[hist.item] = "returned"]
    /\ UNCHANGED <<agentStatus, tasks, agentLocked, agentWaiters,
                   dispatchLocked, loop, child, stream>>

\* GraphExecutionService.run, except branch: log_activity("graph_error")
\* raises; nothing catches it inside run, and TaskQueueWorker.run's except
\* branch takes over.
RunExceptRaise ==
    /\ CanFault
    /\ run.ctx.pc = "run_except"
    /\ run' = [run EXCEPT !.ctx.pc = "w_ack_exc"]
    /\ hist' = [Faulted(hist) EXCEPT !.outcome[hist.item] = "raised"]
    /\ UNCHANGED <<agentStatus, tasks, agentLocked, agentWaiters,
                   dispatchLocked, loop, child, stream>>

\* Variant: the except branch of TaskQueueWorker.run does not acknowledge.
AckExc_noack ==
    /\ run.ctx.pc = "w_ack_exc"
    /\ run' = [run EXCEPT !.ctx = [NoCtx EXCEPT !.pc = "idle"]]
    /\ UNCHANGED <<agentStatus, tasks, agentLocked, agentWaiters,
                   dispatchLocked, loop, child, stream, hist>>

\* TaskQueueWorker.run, except branch: ack_task, then task_queue_error is
\* logged (or that raises too and the outer except sleeps); the loop goes
\* back to dequeue_tasks.
AckExc ==
    /\ run.ctx.pc = "w_ack_exc"
    /\ stream' = ack_task(stream, hist.item)
    /\ hist' = [hist EXCEPT !.acks[hist.item] = IF @ < 2 THEN @ + 1 ELSE @]
    /\ run' = [run EXCEPT !.ctx = [NoCtx EXCEPT !.pc = "idle"]]
    /\ UNCHANGED <<agentStatus, tasks, agentLocked, agentWaiters,
                   dispatchLocked, loop, child>>

\* Positions at which a run_agent_queue coroutine holds its agent's lock.
ChildHolds(ctx) ==
    ctx.pc \in ({"raq_agent", "raq_tasks", "ex_inprog", "ex_working"}
                  \cup ProcessPCs \cup SettlePCs)

\* Where a loop is after CancelledError was raised at the await it was
\* suspended in.  Inside the try block `except asyncio.CancelledError`
\* catches it and the loop returns.  The back-off sleep is awaited inside
\* the `except Exception` branch, which no except branch of the same try
\* statement covers: there the CancelledError leaves the loop's coroutine.
AfterCancel(pc) ==
    IF pc \in {"w_backoff", "backoff"} THEN "cancel_raised" ELSE "stopped"

\* The consumer task is cancelled (lifespan shutdown, or the process dies):
\* CancelledError is raised at the await the consumer is suspended in and,
\* not being an Exception, passes every except branch up to
\* TaskQueueWorker.run, which returns.  On the way `async with` releases
\* the locks the consumer's coroutines hold, a waiter leaves its queue, and
\* gather cancels the run_agent_queue coroutines it started.
Cancel ==
    /\ hist.cancels < MaxCancels
    /\ run.ctx.pc \notin {"stopped", "cancel_raised"}
    /\ LET mine == {w \in AgentRows : ChildHolds(child["runner"][w])}
           fin == IF run.ctx.pc \in SettlePCs THEN {run.ctx.agent} ELSE {}
           gone == {RunnerId} \cup {ChildId("runner", w) : w \in AgentRows}
       IN  /\ agentLocked' =
                 [id \in LockIds |->
                    IF id \in mine \cup fin THEN FALSE ELSE agentLocked[id]]
           /\ agentWaiters' =
                 [id \in LockIds |->
                    SelectSeq(agentWaiters[id], LAMBDA x : x \notin gone)]
    /\ dispatchLocked' = IF run.ctx.pc \in {"d_list", "d_join"} THEN FALSE
                         ELSE dispatchLocked
    /\ child' = [child EXCEPT !["runner"] = [w \in AgentRows |-> NoCtx]]
    /\ run' = [run EXCEPT !.ctx = [NoCtx EXCEPT !.pc = AfterCancel(run.ctx.pc)],
                          !.sweep = "none"]
    /\ hist' = [hist EXCEPT !.cancels = @ + 1]
    /\ UNCHANGED <<agentStatus, tasks, loop, stream>>

\* lifespan: a consumer task is started again and reads the stream as a
\* member of the same group.
Restart ==
    /\ run.ctx.pc = "stopped"
    /\ run' = [run EXCEPT !.ctx.pc = "idle"]
    /\ hist' = [hist EXCEPT !.item = 0, !.empty = FALSE]
    /\ UNCHANGED <<agentStatus, tasks, agentLocked, agentWaiters,
                   dispatchLocked, loop, child, stream>>

Next ==
    \/ Trigger
    \/ RunStart
    \/ DequeueEmpty
    \/ GraphNode
    \/ FinalizeStart
    \/ FinalizeAcquire
    \/ FinalizeWake
    \/ FinalizeSettle
    \/ FinalizeReturn
    \/ RunEnd
    \/ Ack
    \/ LoopTick
    \/ \E c \in Callers : SweepList(c) \/ SweepJoin(c)
    \/ \E c \in Callers, w \in AgentRows :
         \/ RaqStart(c, w)
         \/ RaqWake(c, w)
         \/ RaqAgent(c, w)
         \/ RaqTasks(c, w)
         \/ ExecInProgress(c, w)
         \/ ExecWorking(c, w)
         \/ ExecProcess(c, w)
         \/ ExecSettle(c, w)
         \/ ExecReturn(c, w)

Spec == Init /\ [][Next]_vars

\* The queue consumer alone, run_forever not started, with the exceptions
\* and the cancellation: the sweeps are those GraphExecutionService.run
\* starts itself.
NextF ==
    \/ Trigger
    \/ RunStart
    \/ DequeueEmpty
    \/ GraphNode
    \/ FinalizeStart
    \/ FinalizeAcquire
    \/ FinalizeSettle
    \/ FinalizeReturn
    \/ RunEnd
    \/ Ack
    \/ SweepList("runner")
    \/ SweepJoin("runner")
    \/ \E w \in AgentRows :
         \/ RaqStart("runner", w)
         \/ RaqAgent("runner", w)
         \/ RaqTasks("runner", w)
         \/ ExecInProgress("runner", w)
         \/ ExecWorking("runner", w)
         \/ ExecProcess("runner", w)
         \/ ExecSettle("runner", w)
         \/ ExecReturn("runner", w)
    \/ GraphRaise
    \/ FinalizeRaise
    \/ DispatchRaise
    \/ LogRaise
    \/ RunExcept
    \/ RunExceptRaise
    \/ AckExc
    \/ Cancel
    \/ Restart

SpecF == Init /\ [][NextF]_vars

\* ----------------------------------------------------------- main.py
\* trigger_task, the fallback: enqueue_task raised (Redis is unavailable,
\* so the consumer handles no item) and _run_graph is started as a
\* background task for the goal.
TriggerFallback ==
    /\ run.ctx.pc = "idle"
    /\ stream.added = stream.last
    /\ run.runs + stream.added < MaxRuns
    /\ hist' = [hist EXCEPT !.item = 0, !.calls = <<>>, !.fin = <<>>,
                            !.empty = FALSE, !.graph = "running",
                            !.path = <<"Orchestrator">>, !.failed = FALSE]
    /\ run' = [ctx |-> [create_initial_state EXCEPT !.pc = "proc_begin",
                                                 !.agent = "orchestrator"],
               runs |-> run.runs + 1,
               sweep |-> "none"]
    /\ UNCHANGED <<agentStatus, tasks, agentLocked, agentWaiters,
                   dispatchLocked, loop, child, stream>>

\* _run_graph: graph.ainvoke returned; graph_complete is logged and
\* _run_graph returns, to _task_queue_worker or as a finished background
\* task.
RunGraphEnd ==
    /\ run.ctx.pc = "graph_ret"
    /\ run' = [run EXCEPT !.ctx.pc = IF hist.item = 0 THEN "bg_done"
                                     ELSE "w_ack"]
    /\ hist' = [hist EXCEPT
                  !.calls = Append(@, "graph_complete"),
                  !.graph = "returned",
                  !.outcome = IF hist.item = 0 THEN @
                              ELSE [@ EXCEPT ![hist.item] = "returned"]]
    /\ UNCHANGED <<agentStatus, tasks, agentLocked, agentWaiters,
                   dispatchLocked, loop, child, stream>>

\* The background task of the fallback is done and dropped from
\* _background_tasks.
BackgroundDone ==
    /\ run.ctx.pc = "bg_done"
    /\ run' = [run EXCEPT !.ctx = [NoCtx EXCEPT !.pc = "idle"]]
    /\ UNCHANGED <<agentStatus, tasks, agentLocked, agentWaiters,
                   dispatchLocked, loop, child, stream, hist>>

\* The application as main.py wires it: lifespan starts _task_queue_worker
\* only, and both it and trigger_task's fallback run the graph through
\* _run_graph.
NextMain ==
    \/ Trigger
    \/ TriggerFallback
    \/ RunStart
    \/ DequeueEmpty
    \/ GraphNode
    \/ RunGraphEnd
    \/ Ack
    \/ BackgroundDone

SpecMain == Init /\ [][NextMain]_vars

\* The graph alone, as _task_queue_worker runs it, for every answer of the
\* orchestrator's chain; every call a node awaits returns.
NextG ==
    \/ Trigger
    \/ RunStart
    \/ GraphStep(AllAnswers)
    \/ RunGraphEnd
    \/ Ack

SpecG == Init /\ [][NextG]_vars /\ WF_vars(GraphStep(AllAnswers))

\* ------------------------------------ run_forever and the tasks API
\* The worker whose process call may never return, and another worker.
HungWorker == "crawler"

OtherWorker == "archivist"

\* Assignees of the tasks POST /api/tasks creates.
PostAssignees == {HungWorker, OtherWorker} \cup UnknownIds

\* The dispatcher with two workers clocked in and no task yet.
InitD ==
    /\ agentStatus =
         [a \in AgentRows |-> IF a \in {HungWorker, OtherWorker} THEN IDLE
                              ELSE CLOCKED_OUT]
    /\ tasks = <<>>
    /\ agentLocked = [id \in LockIds |-> FALSE]
    /\ agentWaiters = [id \in LockIds |-> <<>>]
    /\ dispatchLocked = FALSE
    /\ run = [ctx |-> [NoCtx EXCEPT !.pc = "idle"], runs |-> 0, sweep |-> "none"]
    /\ loop = [pc |-> "sleep", sweep |-> "none"]
    /\ child = [c \in Callers |-> [w \in AgentRows |-> NoCtx]]
    /\ stream = [added |-> 0, last |-> 0, pel |-> {}]
    /\ hist = NoHist

\* POST /api/tasks: db.create_task with TaskModel's defaults (status
\* Backlog, priority 0) and one assigned agent.
PostTask ==
    /\ Len(tasks) < MaxSubtasks
    /\ \E a \in PostAssignees : tasks' = create_task(tasks, BACKLOG, 0, a)
    /\ UNCHANGED <<agentStatus, agentLocked, agentWaiters, dispatchLocked,
                   run, loop, child, stream, hist>>

\* run_agent_queue of one worker, but for the process call it awaits.
QueueStep(w) ==
    \/ RaqStart("loop", w)
    \/ RaqAgent("loop", w)
    \/ RaqTasks("loop", w)
    \/ ExecInProgress("loop", w)
    \/ ExecWorking("loop", w)
    \/ ExecSettle("loop", w)
    \/ ExecReturn("loop", w)

\* run_forever alone, with tasks arriving through the API.
NextD ==
    \/ PostTask
    \/ LoopTick
    \/ SweepList("loop")
    \/ SweepJoin("loop")
    \/ \E w \in AgentRows : QueueStep(w) \/ ExecProcess("loop", w)

\* The event loop runs every coroutine that is ready, a sleep ends and a
\* persistence call answers.
FairDispatch ==
    /\ WF_vars(LoopTick)
    /\ WF_vars(SweepList("loop"))
    /\ WF_vars(SweepJoin("loop"))
    /\ \A w \in {HungWorker, OtherWorker} : WF_vars(QueueStep(w))

\* Every process call returns.
SpecD ==
    /\ InitD
    /\ [][NextD]_vars
    /\ FairDispatch
    /\ \A w \in {HungWorker, OtherWorker} : WF_vars(ExecProcess("loop", w))

\* A process call of HungWorker may never return (the chain awaits its
\* model without a timeout); those of the other workers return.
SpecDHang ==
    /\ InitD
    /\ [][NextD]_vars
    /\ FairDispatch
    /\ WF_vars(ExecProcess("loop", OtherWorker))

\* PATCH /api/agents/{agent_id}: db.update_agent with a status of
\* AgentStatusEnum, for one of the two workers.
PatchAgent ==
    /\ \E w \in {HungWorker, OtherWorker}, s \in AgentStatuses :
         /\ agentStatus[w] # s
         /\ agentStatus' = update_agent(agentStatus, w, s)
    /\ UNCHANGED <<tasks, agentLocked, agentWaiters, dispatchLocked, run,
                   loop, child, stream, hist>>

\* run_forever with tasks arriving and agents' statuses set through the
\* API while queues are drained.
NextO ==
    \/ NextD
    \/ PatchAgent

SpecO == InitD /\ [][NextO]_vars

\* ------------------------------------ redis_client.py, the stream itself
\* Goals and priorities of the entries put on the stream.
Goals == {"A", "B", "C"}

QueuePriorities == {0, 5}

\* XADD: the entry is appended; its id is its position in the stream.
xadd(entries, goal, priority) ==
    Append(entries, [goal |-> goal, priority |-> priority])

\* Variant: the group hands out the entries of highest priority first.
xreadgroup_bypriority(entries, last, count) ==
    LET fresh == {i \in DOMAIN entries : i > last}
        m == IF count < Cardinality(fresh) THEN count ELSE Cardinality(fresh)
        Ahead(j, i) == \/ entries[j].priority > entries[i].priority
                       \/ /\ entries[j].priority = entries[i].priority
                          /\ j < i
    IN  [k \in 1..m |->
           CHOOSE i \in fresh :
               Cardinality({j \in fresh : Ahead(j, i)}) = k - 1]

\* XREADGROUP with id ">": the ids of at most `count` entries after the
\* group's last-delivered id, the stream's order being that of the ids.
xreadgroup(entries, last, count) ==
    LET fresh == {i \in DOMAIN entries : i > last}
        m == IF count < Cardinality(fresh) THEN count ELSE Cardinality(fresh)
    IN  [k \in 1..m |->
           CHOOSE i \in fresh : Cardinality({j \in fresh : j < i}) = k - 1]

\* dequeue_tasks: one dict per message, in the order of the reply.
TaskDicts(entries, ids) ==
    [k \in DOMAIN ids |->
        [id |-> ids[k], goal |-> entries[ids[k]].goal,
         priority |-> entries[ids[k]].priority]]

\* The consumer group exists and nothing was put on the stream yet.
InitQ ==
    /\ agentStatus =
         [a \in AgentRows |-> IF a \in ClockedIn THEN IDLE ELSE CLOCKED_OUT]
    /\ tasks = <<>>
    /\ agentLocked = [id \in LockIds |-> FALSE]
    /\ agentWaiters = [id \in LockIds |-> <<>>]
    /\ dispatchLocked = FALSE
    /\ run = [ctx |-> [NoCtx EXCEPT !.pc = "idle"], runs |-> 0, sweep |-> "none"]
    /\ loop = [pc |-> "sleep", sweep |-> "none"]
    /\ child = [c \in Callers |-> [w \in AgentRows |-> NoCtx]]
    /\ stream = [entries |-> <<>>, last |-> 0, pel |-> {}, count |-> 0,
                 out |-> <<>>]
    /\ hist = NoHist

\* enqueue_task(goal, priority)
EnqueueGoal ==
    /\ Len(stream.entries) < MaxQueue
    /\ \E g \in Goals, p \in QueuePriorities :
         stream' = [stream EXCEPT !.entries = xadd(@, g, p)]
    /\ UNCHANGED <<agentStatus, tasks, agentLocked, agentWaiters,
                   dispatchLocked, run, loop, child, hist>>

\* dequeue_tasks(count): the entries of the reply are delivered, which
\* puts them on the group's pending list; `out` is the list returned.
DequeueCount ==
    /\ \E count \in 1..MaxQueue :
         LET ids == xreadgroup(stream.entries, stream.last, count)
         IN  stream' = [stream EXCEPT
                          !.last = IF ids = <<>> THEN @
                                   ELSE CHOOSE i \in {ids[k] : k \in DOMAIN ids} :
                                          \A k \in DOMAIN ids : ids[k] <= i,
                          !.pel = @ \cup {ids[k] : k \in DOMAIN ids},
                          !.count = count,
                          !.out = TaskDicts(stream.entries, ids)]
    /\ UNCHANGED <<agentStatus, tasks, agentLocked, agentWaiters,
                   dispatchLocked, run, loop, child, hist>>

NextQ ==
    \/ EnqueueGoal
    \/ DequeueCount

SpecQ == InitQ /\ [][NextQ]_vars

\* ----------------------------- what one execute_assigned_task run emits
\* _notify_task_success followed by log_activity("task_completed").
SuccessOps ==
    <<<<"task_complete", "orchestrator">>, <<"chat", "user">>,
      <<"activity", "task_completed">>>>

\* _notify_task_failure followed by log_activity("task_blocked_error").
FailureOps ==
    <<<<"error", "orchestrator">>, <<"chat", "user">>,
      <<"activity", "task_blocked_error">>>>

\* execute_assigned_task: the messages are created and the activity is
\* logged; it returns and run_agent_queue asks for the agent again.
ExecNotify(c, w) ==
    /\ child[c][w].pc \in {"ok_notify", "fail_notify"}
    /\ SetChild(c, w,
          [child[c][w] EXCEPT
             !.msgs = @ \o (IF child[c][w].pc = "ok_notify" THEN SuccessOps
                            ELSE FailureOps),
             !.pc = "raq_agent"])
    /\ UNCHANGED <<agentStatus, tasks, agentLocked, agentWaiters,
                   dispatchLocked, run, loop>>
    /\ UNCHANGED <<stream, hist>>

\* execute_assigned_task: one of the create_message or log_activity calls
\* of the success path raises; those before it are done.  The calls stand
\* inside the try block, so the except branch takes over.
ExecSuccessRaise(c, w) ==
    /\ CanFault
    /\ child[c][w].pc = "ok_notify"
    /\ \E k \in 0..(Len(SuccessOps) - 1) :
         SetChild(c, w,
           [child[c][w] EXCEPT !.msgs = @ \o SubSeq(SuccessOps, 1, k),
                               !.pc = "blk_write"])
    /\ hist' = Faulted(hist)
    /\ UNCHANGED <<agentStatus, tasks, agentLocked, agentWaiters,
                   dispatchLocked, run, loop, stream>>

\* run_forever with tasks arriving through the API, what each run emits
\* being recorded, and the persistence port failing on the success path.
NextN ==
    \/ PostTask
    \/ LoopTick
    \/ SweepList("loop")
    \/ SweepJoin("loop")
    \/ \E w \in AgentRows :
         \/ RaqStart("loop", w)
         \/ RaqAgent("loop", w)
         \/ RaqTasks("loop", w)
         \/ ExecInProgress("loop", w)
         \/ ExecWorking("loop", w)
         \/ ExecProcess("loop", w)
         \/ ExecSettle("loop", w)
         \/ ExecNotify("loop", w)
         \/ ExecSuccessRaise("loop", w)

SpecN == InitD /\ [][NextN]_vars

\* ------------------------------------- an exception inside one drain
\* Positions of run_agent_queue at which an exception of the persistence
\* port leaves the coroutine: get_agent and get_tasks_by_agent, which no
\* try block covers, and the calls of execute_assigned_task's except
\* branch.
RaisePCs == {"raq_agent", "raq_tasks", "blk_write", "fail_notify"}

\* Variant: gather hands the exception on; dispatch_idle_agents raises,
\* run_forever backs off, and the other coroutines are dropped.
RaqRaise_propagate(c, w) ==
    /\ CanFault
    /\ c = "loop"
    /\ child[c][w].pc \in RaisePCs
    /\ child' = [child EXCEPT ![c] = [v \in AgentRows |-> NoCtx]]
    /\ agentLocked' = [id \in LockIds |->
                         IF id \in AgentRows /\ ChildHolds(child[c][id])
                         THEN FALSE ELSE agentLocked[id]]
    /\ dispatchLocked' = FALSE
    /\ loop' = [pc |-> "backoff", sweep |-> "none"]
    /\ hist' = Faulted(hist)
    /\ UNCHANGED <<agentStatus, tasks, agentWaiters, run, stream>>

\* run_agent_queue raises: `async with` releases the agent's lock and
\* asyncio.gather(return_exceptions=True) keeps the exception as that
\* coroutine's result.
RaqRaise(c, w) ==
    /\ CanFault
    /\ child[c][w].pc \in RaisePCs
    /\ SetChild(c, w, [child[c][w] EXCEPT !.pc = "raised"])
    /\ agentLocked' = Released(w)
    /\ hist' = Faulted(hist)
    /\ UNCHANGED <<agentStatus, tasks, agentWaiters, dispatchLocked, run,
                   loop, stream>>

\* run_forever with tasks arriving through the API and the persistence
\* port failing inside run_agent_queue.
NextR ==
    \/ NextD
    \/ \E w \in AgentRows : RaqRaise("loop", w)

\* Every coroutine that is ready runs and every process call returns.
SpecR ==
    /\ InitD
    /\ [][NextR]_vars
    /\ FairDispatch
    /\ \A w \in {HungWorker, OtherWorker} : WF_vars(ExecProcess("loop", w))

\* ------------------------------------- both loops, errors, shutdown
\* Answers of the orchestrator's chain that delegate nothing.
DirectAnswers == [subtasks : {<<>>}, response : BOOLEAN]

\* TaskQueueWorker.run: dequeue_tasks raises (the stream cannot be read);
\* the outer except branch logs and sleeps two seconds.
DequeueRaise ==
    /\ CanFault
    /\ run.ctx.pc = "idle"
    /\ run' = [run EXCEPT !.ctx.pc = "w_backoff"]
    /\ hist' = Faulted(hist)
    /\ UNCHANGED <<agentStatus, tasks, agentLocked, agentWaiters,
                   dispatchLocked, loop, child, stream>>

\* TaskQueueWorker.run: ack_task after the run raises; the inner except
\* branch takes over.
AckRaise ==
    /\ CanFault
    /\ run.ctx.pc = "w_ack"
    /\ run' = [run EXCEPT !.ctx.pc = "w_ack_exc"]
    /\ hist' = Faulted(hist)
    /\ UNCHANGED <<agentStatus, tasks, agentLocked, agentWaiters,
                   dispatchLocked, loop, child, stream>>

\* TaskQueueWorker.run, inner except branch: ack_task raises, or it
\* returns and log_activity raises; the outer except branch logs and
\* sleeps two seconds.
AckExcRaise ==
    /\ CanFault
    /\ run.ctx.pc = "w_ack_exc"
    /\ \E acked \in BOOLEAN :
         /\ stream' = IF acked THEN ack_task(stream, hist.item) ELSE stream
         /\ hist' = [Faulted(hist) EXCEPT
                       !.acks[hist.item] = IF acked /\ @ < 2 THEN @ + 1 ELSE @]
    /\ run' = [run EXCEPT !.ctx = [NoCtx EXCEPT !.pc = "w_backoff"]]
    /\ UNCHANGED <<agentStatus, tasks, agentLocked, agentWaiters,
                   dispatchLocked, loop, child>>

\* TaskQueueWorker.run: the back-off sleep is over; dequeue_tasks again.
WorkerBackoff ==
    /\ run.ctx.pc = "w_backoff"
    /\ run' = [run EXCEPT !.ctx.pc = "idle"]
    /\ UNCHANGED <<agentStatus, tasks, agentLocked, agentWaiters,
                   dispatchLocked, loop, child, stream, hist>>

\* Variant: run_forever returns when dispatch_idle_agents raises.
LoopDispatchRaise_return ==
    /\ CanFault
    /\ loop.pc = "d_list"
    /\ dispatchLocked' = FALSE
    /\ loop' = [pc |-> "stopped", sweep |-> "none"]
    /\ hist' = Faulted(hist)
    /\ UNCHANGED <<agentStatus, tasks, agentLocked, agentWaiters, run, child,
                   stream>>

\* run_forever: get_all_agents raises inside dispatch_idle_agents;
\* `async with` releases the global lock, and the except branch of
\* run_forever logs and sleeps two seconds.
LoopDispatchRaise ==
    /\ CanFault
    /\ loop.pc = "d_list"
    /\ dispatchLocked' = FALSE
    /\ loop' = [pc |-> "backoff", sweep |-> "none"]
    /\ hist' = Faulted(hist)
    /\ UNCHANGED <<agentStatus, tasks, agentLocked, agentWaiters, run, child,
                   stream>>

\* run_forever: the back-off sleep is over; the next tick begins.
LoopBackoff ==
    /\ loop.pc = "backoff"
    /\ dispatch_idle_agents("loop")
    /\ UNCHANGED <<agentStatus, tasks, agentLocked, agentWaiters, child>>
    /\ UNCHANGED <<stream, hist>>

\* The run_forever task is cancelled: CancelledError is raised at the await
\* it is suspended in; `async with` releases the global lock and the locks
\* of the run_agent_queue coroutines, which gather cancels.
CancelLoop ==
    /\ hist.cancels < MaxCancels
    /\ loop.pc \notin {"stopped", "cancel_raised"}
    /\ LET mine == {w \in AgentRows : ChildHolds(child["loop"][w])}
           gone == {ChildId("loop", w) : w \in AgentRows}
       IN  /\ agentLocked' =
                 [id \in LockIds |->
                    IF id \in mine THEN FALSE ELSE agentLocked[id]]
           /\ agentWaiters' =
                 [id \in LockIds |->
                    SelectSeq(agentWaiters[id], LAMBDA x : x \notin gone)]
    /\ dispatchLocked' = IF loop.pc \in {"d_list", "d_join"} THEN FALSE
                         ELSE dispatchLocked
    /\ child' = [child EXCEPT !["loop"] = [w \in AgentRows |-> NoCtx]]
    /\ loop' = [pc |-> AfterCancel(loop.pc), sweep |-> "none"]
    /\ hist' = [hist EXCEPT !.cancels = @ + 1]
    /\ UNCHANGED <<agentStatus, tasks, run, stream>>

\* Both loops, with goals the orchestrator answers itself and tasks
\* arriving through the API, the exceptions of the calls the loops await,
\* and the cancellation of either loop.
NextE ==
    \/ Trigger
    \/ PostTask
    \/ RunStart
    \/ DequeueEmpty
    \/ GraphStep(DirectAnswers)
    \/ FinalizeStart
    \/ RunEnd
    \/ Ack
    \/ LoopTick
    \/ \E c \in Callers : SweepList(c) \/ SweepJoin(c)
    \/ \E c \in Callers, w \in AgentRows :
         \/ RaqStart(c, w)
         \/ RaqAgent(c, w)
         \/ RaqTasks(c, w)
         \/ ExecInProgress(c, w)
         \/ ExecWorking(c, w)
         \/ ExecProcess(c, w)
         \/ ExecSettle(c, w)
         \/ ExecReturn(c, w)
    \/ GraphRaise
    \/ DispatchRaise
    \/ LogRaise
    \/ RunExcept
    \/ RunExceptRaise
    \/ AckExc
    \/ DequeueRaise
    \/ AckRaise
    \/ AckExcRaise
    \/ WorkerBackoff
    \/ LoopDispatchRaise
    \/ LoopBackoff
    \/ Cancel
    \/ CancelLoop

SpecE == Init /\ [][NextE]_vars

\* ---------------------------------------------- every way out of a lock
\* The consumer with delegated goals, so that its sweep, drains and
\* finalization all run, and every way they end: return, an exception of a
\* persistence call at each place that holds a lock, and cancellation.
NextL ==
    \/ NextF
    \/ \E w \in AgentRows : RaqRaise("runner", w)

SpecL == Init /\ [][NextL]_vars

\* =================================================================
\* Properties
\* =================================================================

\* The process calls in flight for agent w: the graph node running it and
\* the execute_assigned_task runs inside it.
InFlight(w) ==
    (IF run.ctx.pc \in ProcessPCs /\ run.ctx.agent = w THEN {RunnerId} ELSE {})
      \cup {ChildId(c, w) : c \in {d \in Callers : child[d][w].pc \in ProcessPCs}}

\* Positions of run_agent_queue inside execute_assigned_task.
ExecPCs == {"ex_inprog", "ex_working"} \cup ProcessPCs \cup SettlePCs

\* An execute_assigned_task run for agent w is under way.
ExecSection(w) == \E c \in Callers : child[c][w].pc \in ExecPCs

\* finalize_primary_task is inside `async with lock` for agent w.
FinalizeSection(w) == run.ctx.pc \in SettlePCs /\ run.ctx.agent = w

\* A caller is inside the body of dispatch_idle_agents.
InBody(c) == CallerPc(c) \in {"d_list", "d_join"}

\* The sweep field of a caller.
SweepOf(c) == IF c = "loop" THEN loop.sweep ELSE run.sweep

\* C1: for every worker id, at most one Specialist.process call for that
\* worker is in flight, whatever graph runs, sweeps and finalizations are
\* under way.
C1_SingleFlight ==
    \A w \in AGENT_CLASSES : Cardinality(InFlight(w)) <= 1

\* C2: once a task is Done or Blocked, no step of the dispatcher or of a
\* graph run changes its status.
C2_TerminalStable ==
    [][\A t \in DOMAIN tasks :
         tasks[t].status \in {DONE, BLOCKED}
           => tasks'[t].status = tasks[t].status]_vars

\* No graph run, finalization or drain is under way.
Quiet ==
    /\ run.ctx.pc = "idle"
    /\ \A c \in Callers, w \in AgentRows :
         child[c][w].pc \in {"none", "done", "skipped"}

\* C3: a task for which a Specialist.process call failed ends Blocked: once
\* the graph run and the drains are over it is Blocked, not Done.
C3_FailedEndsBlocked ==
    \A t \in DOMAIN tasks :
        (tasks[t].failed /\ Quiet) => tasks[t].status = BLOCKED

\* C4: for every worker, an execute_assigned_task run started by
\* run_agent_queue and the locked section of finalize_primary_task for that
\* worker are never under way at the same time.
C4_NoOverlap ==
    \A w \in AgentRows : ~(ExecSection(w) /\ FinalizeSection(w))

\* C4 witness: both were started concurrently for one worker, and
\* finalize_primary_task is held back while execute_assigned_task runs.
C4_Witness ==
    \E w \in AgentRows :
        ExecSection(w) /\ run.ctx.pc = "fin_wait" /\ run.ctx.agent = w

\* C5 as stated: no caller of either lock kind is ever suspended waiting for
\* a lock.
C5_NeverWaits == \A id \in LockIds : agentWaiters[id] = <<>>

\* The step in which caller c calls dispatch_idle_agents.
DispatchCall(c) ==
    IF c = "loop" THEN loop.pc = "sleep" /\ loop' # loop
    ELSE /\ run' # run
         /\ \/ run.ctx.pc \in {"ok_notify", "fail_notify"}
            \/ run.ctx.pc = "graph_ret" /\ run.ctx.delegated = <<>>

\* A caller that begins dispatch_idle_agents while the global lock is held
\* returns from it with nothing listed, started or released.
SkipsSweep(c) ==
    (DispatchLockHeld /\ DispatchCall(c))
      => /\ SweepOf(c)' = "skipped"
         /\ CallerPc(c)' = AfterSweep(c)
         /\ UNCHANGED <<child, dispatchLocked, agentStatus, tasks>>

\* A run_agent_queue call that begins while the agent's lock is held
\* returns having read and changed nothing, and stays returned.
SkipsDrain(c, w) ==
    /\ (child[c][w].pc = "raq_start" /\ agentLocked[w]
          /\ child'[c][w] # child[c][w])
         => /\ child'[c][w].pc = "skipped"
            /\ UNCHANGED <<agentStatus, tasks, agentLocked, agentWaiters>>
    /\ (child[c][w].pc = "skipped" /\ child'[c][w] # child[c][w])
         => child'[c][w].pc = "none"

\* C5, amended: run_agent_queue and dispatch_idle_agents return without
\* doing work when they find their lock held, while finalize_primary_task
\* queues on a held lock and, once woken, does its work.
C5_SkipOrWait ==
    [][/\ \A c \in Callers : SkipsSweep(c)
       /\ \A c \in Callers, w \in AgentRows : SkipsDrain(c, w)
       /\ (run.ctx.pc = "fin_get" /\ agentLocked[run.ctx.agent]
             /\ run' # run)
            => /\ run'.ctx.pc = "fin_wait"
               /\ RunnerId = agentWaiters'[run.ctx.agent]
                               [Len(agentWaiters'[run.ctx.agent])]
               /\ UNCHANGED <<tasks, agentStatus>>
       /\ (run.ctx.pc = "fin_wait" /\ run' # run)
            => /\ run'.ctx.pc = FinalizeBody(run.ctx)
               /\ agentLocked'[run.ctx.agent]]_vars

\* C5 witness: finalize_primary_task found the lock held by a drain that is
\* inside process, and waits first in the lock's queue.
C5_Witness ==
    LET id == run.ctx.agent
    IN  /\ run.ctx.pc = "fin_wait"
        /\ agentLocked[id]
        /\ Head(agentWaiters[id]) = RunnerId
        /\ \E c \in Callers : child[c][id].pc \in ProcessPCs

\* C6: while one invocation of dispatch_idle_agents is inside its body a
\* second one returns at once, listing nothing and starting nothing, and two
\* bodies never run at the same time.
C6_SingleSweep ==
    [][/\ \A c \in Callers : SkipsSweep(c)
       /\ Cardinality({c \in Callers : InBody(c)'}) <= 1]_vars

\* C6 witness: one caller is in the body, the other was turned away.
C6_Witness ==
    \E c, d \in Callers : c # d /\ InBody(c) /\ SweepOf(d) = "skipped"

\* C7: run_agent_queue(W) called while W's lock is held returns without
\* reading the worker, listing its tasks, changing a status or calling
\* process.
C7_LockedDrainIsNoOp ==
    [][\A c \in Callers, w \in AgentRows :
         /\ SkipsDrain(c, w)
         /\ (child[c][w].pc = "raq_start" /\ agentLocked[w])
              => InFlight(w)' \subseteq InFlight(w)]_vars

\* C7 witness: a call returned that way while finalize_primary_task, or a
\* drain of another sweep, holds the lock.
C7_Witness ==
    \E c \in Callers, w \in AgentRows :
        child[c][w].pc = "skipped" /\ agentLocked[w]

C9_UnknownNeverStarted ==
    \A t \in DOMAIN tasks :
        ~InRegistry(tasks[t].agent) => tasks[t].status \in {BACKLOG, BLOCKED}

C12_AtLeastOnce ==
    /\ [](hist.empty => stream.pel = {})
    /\ [][(hist'.item # hist.item /\ hist'.item # 0)
            => hist.acks[hist'.item] = 0]_vars

\* C13: GraphExecutionService.run returns normally whatever the calls it
\* awaits raise.
C13_RunNeverRaises ==
    \A i \in ItemIds : hist.outcome[i] # "raised"

\* C14: when graph.ainvoke raised, the run's inline task is Blocked and
\* graph_error is logged by the time run returns.
C14_GraphErrorBlocksInline ==
    (run.ctx.pc = "w_ack" /\ hist.graph = "raised" /\ run.ctx.taskIds # <<>>)
      => /\ tasks[run.ctx.taskIds[1]].status = BLOCKED
         /\ hist.calls = <<"graph_error">>

\* The calls of a run whose graph invocation returned normally.
RunCalls == <<"finalize", "dispatch", "graph_complete">>

FinWrites == SelectSeq(hist.fin, LAMBDA op : op # "get_task")

\* C16: once finalize_primary_task has returned, it has done nothing at
\* all without a delegation; with an error it has written Blocked and sent
\* the error and chat messages; without one it has written Review, Done,
\* sent the task_complete and chat messages and logged task_completed.
C16_FinalizeEffects ==
    (run.ctx.pc \in {"d_list", "d_join", "run_log", "w_ack"}
       /\ Len(hist.calls) >= 2 /\ hist.calls[2] = "dispatch")
      => IF run.ctx.delegated = <<>> \/ run.ctx.taskIds = <<>>
         THEN hist.fin = <<>>
         ELSE IF run.ctx.error
              THEN FinWrites = <<"status:Blocked", "msg:error", "msg:chat">>
              ELSE FinWrites = <<"status:Review", "status:Done",
                                 "msg:task_complete", "msg:chat",
                                 "act:task_completed">>

\* C17: an Idle worker other than the one whose process call does not
\* return, holding a pending task, has that task taken out of the pending
\* statuses (or is no longer Idle) later on.
C17_IndependentDrain ==
    \A i \in 1..MaxSubtasks :
        (/\ i \in DOMAIN tasks
         /\ tasks[i].agent = OtherWorker
         /\ tasks[i].status \in PENDING_TASK_STATUSES
         /\ agentStatus[OtherWorker] = IDLE)
        ~> (\/ agentStatus[OtherWorker] # IDLE
            \/ i \in DOMAIN tasks
                 /\ tasks[i].status \notin PENDING_TASK_STATUSES)

\* C18: once execute_assigned_task has failed on a task of a worker, every
\* other pending task of this worker is executed later on.
C18_OtherTasksStillRun ==
    \A i, j \in 1..MaxSubtasks :
        (/\ i # j
         /\ {i, j} \subseteq DOMAIN tasks
         /\ tasks[i].agent = tasks[j].agent
         /\ InRegistry(tasks[i].agent)
         /\ tasks[j].failed
         /\ tasks[i].status \in PENDING_TASK_STATUSES)
        ~> (i \in DOMAIN tasks /\ tasks[i].execs > 0)

\* C19: when a graph run that reached its end is over, finalize_primary_task
\* and dispatch_idle_agents have been called for it.
C19_RunFinalizesAndSweeps ==
    (run.ctx.pc \in {"w_ack", "bg_done"} /\ hist.graph = "returned")
      => /\ \E k \in DOMAIN hist.calls : hist.calls[k] = "finalize"
         /\ \E k \in DOMAIN hist.calls : hist.calls[k] = "dispatch"

\* C20: a task assigned to an unregistered id is Blocked later on.
C20_UnknownEventuallyBlocked ==
    \A i \in 1..MaxSubtasks :
        (i \in DOMAIN tasks /\ tasks[i].agent \in UnknownIds)
        ~> (i \in DOMAIN tasks /\ tasks[i].status = BLOCKED)

\* C23: one graph invocation enters the orchestrator node first and once,
\* enters no node twice, and reaches END.
C23_EachNodeOnce ==
    /\ [](/\ hist.path # <<>> => hist.path[1] = "Orchestrator"
          /\ \A i, j \in DOMAIN hist.path :
                hist.path[i] = hist.path[j] => i = j)
    /\ (hist.graph = "running") ~> (run.ctx.pc = "graph_ret")

\* C23 witness: the longest path has reached END.
C23_Witness ==
    /\ run.ctx.pc = "graph_ret"
    /\ Len(hist.path) = 5

\* C24: when the orchestrator's answer has a direct reply, one chat message
\* goes to the user and the invocation ends after the orchestrator node.
C24_ReplyEndsRun ==
    (run.ctx.pc \in {"graph_ret", "w_ack"} /\ run.ctx.response)
      => /\ Len(SelectSeq(run.ctx.msgs, LAMBDA m : m = <<"chat", "user">>)) = 1
         /\ hist.path = <<"Orchestrator">>

\* The orchestrator's execute is past its loop over the subtasks.
ExecuteDone ==
    run.ctx.agent = "orchestrator" /\ run.ctx.pc \in {"orch_reply", "proc_idle"}

\* The orchestrator's execute is under way.
InExecute ==
    /\ run.ctx.agent = "orchestrator"
    /\ run.ctx.pc \in {"orch_create", "orch_working", "orch_reply"}

Routable ==
    {"crawler", "researcher", "viral_engineer", "comms", "devops", "archivist",
     "frontend_designer"}

\* A node returns in this step: the last await of process is answered.
NodeReturns(agent_id) ==
    /\ run.ctx.agent = agent_id
    /\ run.ctx.pc \in {"proc_log", "proc_faillog"}
    /\ run' # run

\* The graph goes on to the node of agent_id.
Enters(agent_id) ==
    run'.ctx.pc = "proc_begin" /\ run'.ctx.agent = agent_id

\* The graph ends.
Ends == run'.ctx.pc = "graph_ret"

C27_PostNodeRouting ==
    [][/\ NodeReturns("researcher") =>
            IF run'.ctx.findings THEN Enters("viral_engineer")
            ELSE Enters("archivist")
       /\ (NodeReturns("comms") \/ NodeReturns("archivist")) =>
            IF run'.ctx.error THEN Enters("devops") ELSE Ends]_vars

\* C27 witness: research left no findings, the archive node was entered
\* and, an error being there, the health check after it.
C27_Witness ==
    hist.path = <<"Orchestrator", "Researcher", "Archivist", "DevOps">>

\* C28: with the researcher at the head of the list, findings left and no
\* error left by any node, the path at END is orchestrator, researcher,
\* viral engineer, archivist.
C28_ResearchPath ==
    (/\ run.ctx.pc = "graph_ret"
     /\ run.ctx.delegated # <<>>
     /\ run.ctx.delegated[1] = "researcher"
     /\ run.ctx.findings
     /\ ~hist.failed)
      => hist.path = <<"Orchestrator", "Researcher", "ViralEngineer",
                       "Archivist">>

\* C28 witness: such an invocation has reached END.
C28_Witness ==
    /\ run.ctx.pc = "graph_ret"
    /\ run.ctx.delegated # <<>>
    /\ run.ctx.delegated[1] = "researcher"
    /\ run.ctx.findings
    /\ ~hist.failed

\* C29: with devops at the head of the list the path is orchestrator,
\* devops and nothing else, whatever the error field holds.
C29_DevOpsPath ==
    (run.ctx.delegated # <<>> /\ run.ctx.delegated[1] = "devops")
      => /\ hist.path \in {<<"Orchestrator">>, <<"Orchestrator", "DevOps">>}
         /\ run.ctx.pc = "graph_ret" => hist.path = <<"Orchestrator", "DevOps">>

\* C29 witness: the devops node left an error and the graph ended after it.
C29_Witness ==
    /\ run.ctx.pc = "graph_ret"
    /\ run.ctx.delegated # <<>>
    /\ run.ctx.delegated[1] = "devops"
    /\ run.ctx.error

\* A loop's coroutine has ended.
Ended(pc) == pc \in {"stopped", "cancel_raised"}

\* Every lock that is held is held by a coroutine that is still running.
NoOrphanLock ==
    /\ \A w \in LockIds :
         agentLocked[w] =>
           \/ \E c \in Callers : w \in AgentRows /\ ChildHolds(child[c][w])
           \/ run.ctx.pc \in SettlePCs /\ run.ctx.agent = w
    /\ dispatchLocked =>
         \/ loop.pc \in {"d_list", "d_join"}
         \/ run.ctx.pc \in {"d_list", "d_join"}

\* C21: cancelled at any of its suspension points a loop returns with the
\* cancellation swallowed, and no lock stays held by a coroutine that is
\* gone.
C21_CancelSwallowed ==
    /\ run.ctx.pc # "cancel_raised"
    /\ loop.pc # "cancel_raised"
    /\ NoOrphanLock

\* A step that is not a cancellation.
NotCancelled == hist'.cancels = hist.cancels

\* The loops end on cancellation only; run_forever backs off after an
\* exception of dispatch_idle_agents and then begins a next tick;
\* TaskQueueWorker.run backs off after an exception of dequeue_tasks and
\* then dequeues again.
LoopsSurvive ==
    /\ (Ended(loop'.pc) /\ ~Ended(loop.pc)) => ~NotCancelled
    /\ (Ended(run'.ctx.pc) /\ ~Ended(run.ctx.pc)) => ~NotCancelled
    /\ (loop.pc = "d_list" /\ hist'.faults > hist.faults /\ loop' # loop)
         => loop'.pc = "backoff"
    /\ (loop.pc = "backoff" /\ loop' # loop /\ NotCancelled)
         => loop'.pc \in {"d_list", "sleep"}
    /\ (run.ctx.pc = "idle" /\ hist'.faults > hist.faults /\ run' # run)
         => run'.ctx.pc = "w_backoff"
    /\ (run.ctx.pc = "w_backoff" /\ run' # run /\ NotCancelled)
         => run'.ctx.pc = "idle"

\* C22 as stated: the loops end on cancellation only, and each backs off
\* and tries again after an error; in TaskQueueWorker.run that holds of an
\* error of the handling of an item as of an error of dequeue_tasks.
C22_BackOffAndRetry ==
    [][/\ LoopsSurvive
       /\ (run.ctx.pc = "w_ack_exc" /\ run' # run /\ NotCancelled)
            => run'.ctx.pc = "w_backoff"]_vars

\* C22 amended: the loops end on cancellation only; run_forever backs off
\* after an error of dispatch_idle_agents and begins a next tick;
\* TaskQueueWorker.run backs off after an error of dequeue_tasks and
\* dequeues again; after an error of the handling of an item it
\* acknowledges the item and dequeues again at once, and backs off only
\* when the acknowledgement or the logging fails too.
C22_BackOffOnReadError ==
    [][/\ LoopsSurvive
       /\ (run.ctx.pc = "w_ack_exc" /\ run' # run /\ NotCancelled)
            => \/ /\ run'.ctx.pc = "idle"
                   /\ hist'.faults = hist.faults
                   /\ hist.item \notin stream'.pel
               \/ /\ run'.ctx.pc = "w_backoff"
                   /\ hist'.faults > hist.faults]_vars

\* C22 witness: both loops are in their back-off sleep after an error.
C22_Witness ==
    /\ run.ctx.pc = "w_backoff"
    /\ loop.pc = "backoff"

\* Positions of a run_agent_queue coroutine inside execute_assigned_task,
\* before process is called for a registered worker.
ExecEntry == {"ex_inprog", "ex_working"}

\* The position of the run_agent_queue coroutine run_forever started for w.
QueuePc(w) == child["loop"][w].pc

\* C30: run_agent_queue holds the worker's lock while it works; it goes on
\* to the tasks only from a reload of the worker that found it Idle, calls
\* execute_assigned_task only after such a reload, for one task, the first
\* in the persistence layer's order of the worker's Backlog, In Progress
\* and Review tasks, and returns, releasing the lock, when there is none.
C30_ReloadBeforeEachTask ==
    /\ [](\A w \in AgentRows :
            QueuePc(w) \in {"raq_agent", "raq_tasks"} \cup ExecEntry
              => agentLocked[w])
    /\ [][\A w \in AgentRows :
            /\ (QueuePc(w)' = "raq_tasks" /\ QueuePc(w) # "raq_tasks")
                 => QueuePc(w) = "raq_agent" /\ agentStatus[w] = IDLE
            /\ (QueuePc(w)' \in ExecEntry /\ QueuePc(w) \notin ExecEntry)
                 => LET t == child["loop"][w].task'
                        mine == {u \in DOMAIN tasks :
                                   /\ tasks[u].agent = w
                                   /\ tasks[u].status
                                        \in {BACKLOG, IN_PROGRESS, REVIEW}}
                    IN  /\ QueuePc(w) = "raq_tasks"
                        /\ t \in mine
                        /\ \A u \in mine \ {t} :
                              \/ tasks[t].priority > tasks[u].priority
                              \/ /\ tasks[t].priority = tasks[u].priority
                                 /\ t > u
            /\ (QueuePc(w) = "raq_tasks" /\ QueuePc(w)' # "raq_tasks")
                 => IF \E u \in DOMAIN tasks :
                          /\ tasks[u].agent = w
                          /\ tasks[u].status \in {BACKLOG, IN_PROGRESS, REVIEW}
                    THEN QueuePc(w)' \in ExecEntry
                    ELSE QueuePc(w)' = "done" /\ ~agentLocked'[w]
            /\ (QueuePc(w) \in {"ok_notify", "fail_notify"}
                  /\ QueuePc(w)' # QueuePc(w))
                 => QueuePc(w)' = "raq_agent"]_vars

\* C30 witness: a queue run that executed one task found the worker no
\* longer Idle at its next reload and returned with a task still pending.
C30_Witness ==
    \E w \in AgentRows :
        /\ QueuePc(w) = "done"
        /\ agentStatus[w] \in {MEETING, CLOCKED_OUT}
        /\ \E t, u \in DOMAIN tasks :
              /\ tasks[t].agent = w /\ tasks[t].status = DONE
              /\ tasks[u].agent = w /\ tasks[u].status = BACKLOG

\* A run_agent_queue coroutine of run_forever's sweep is under way.
Draining(w) ==
    child["loop"][w].pc \notin {"none", "done", "skipped", "raised"}

\* C31: an exception of one worker's run_agent_queue stays that
\* coroutine's result: the sweep goes on waiting for the others with its
\* lock held, dispatch_idle_agents does not raise, every other drain runs
\* to its end and the sweep then returns.
C31_DrainErrorsIsolated ==
    /\ [](/\ loop.pc \in {"sleep", "d_list", "d_join"}
          /\ \A w \in AgentRows :
                child["loop"][w].pc = "raised"
                  => loop.pc = "d_join" /\ dispatchLocked)
    /\ \A w \in {HungWorker, OtherWorker} : Draining(w) ~> ~Draining(w)
    /\ (loop.pc = "d_join") ~> (loop.pc = "sleep")

\* C31 witness: one worker's drain raised and the other worker's process
\* call is in flight.
C31_Witness ==
    /\ child["loop"][HungWorker].pc = "raised"
    /\ child["loop"][OtherWorker].pc \in ProcessPCs

\* C32: dequeue_tasks(count) returns the oldest entries not yet delivered,
\* `count` of them or all when there are fewer, in the order of their
\* enqueue_task calls, whatever their priorities.
C32_FifoDelivery ==
    [][(stream'.entries = stream.entries /\ stream' # stream) =>
         LET left == Len(stream.entries) - stream.last
             m == IF stream'.count < left THEN stream'.count ELSE left
         IN  /\ stream'.out =
                   [k \in 1..m |->
                      [id |-> stream.last + k,
                       goal |-> stream.entries[stream.last + k].goal,
                       priority |-> stream.entries[stream.last + k].priority]]
             /\ stream'.last = stream.last + m]_vars

\* C32 witness: after an earlier delivery, two goals were returned
\* together, the one of lower priority first as it was enqueued first.
C32_Witness ==
    /\ stream.last = 3
    /\ Len(stream.out) = 2
    /\ stream.out[1].id = 2
    /\ stream.out[1].priority < stream.out[2].priority
    /\ stream.out[1].goal # stream.out[2].goal

\* C33: from its creation by the entry node to the return of
\* finalize_primary_task, the first delegated task of a graph run is in
\* no sweep's execute_assigned_task.
C33_InlineTaskGraphOnly ==
    (run.ctx.taskIds # <<>> /\ run.ctx.pc \notin {"idle", "stopped"})
      => \A c \in Callers, w \in AgentRows :
            child[c][w].pc \in {"ex_inprog", "ex_working"} \cup ProcessPCs
                                \cup SettlePCs
              => child[c][w].task # run.ctx.taskIds[1]

\* C34: the execute_assigned_task run that has just returned has emitted
\* either task_complete, chat and the task_completed activity, or error,
\* chat and the task_blocked_error activity, and nothing else.
C34_OneNotificationPair ==
    \A w \in AgentRows :
        (child["loop"][w].pc = "raq_agent" /\ child["loop"][w].task # 0)
          => child["loop"][w].msgs \in {SuccessOps, FailureOps}

\* ------------------------------------------------ BaseAgent.process
\* One step c -> c2 of a process call, with the agents table st2 after it:
\* the first step writes Working, the success branch writes Idle, the
\* except branch writes Error and returns the state with the error in it.
ProcessWrites(c, c2, st2) ==
    /\ c.pc = "proc_begin" /\ c2.pc = "proc_chain" /\ c.agent \in DOMAIN st2
         => st2[c.agent] = WORKING
    /\ c.pc = "proc_idle" /\ c2.pc = "proc_log" /\ c.agent \in DOMAIN st2
         => st2[c.agent] = IDLE
    /\ c.pc = "proc_fail" /\ c2.pc = "proc_faillog" /\ c.agent \in DOMAIN st2
         => st2[c.agent] = ERROR
    /\ c.pc = "proc_faillog"
         /\ c2.pc \notin {"proc_faillog", "stopped", "cancel_raised",
                          "run_except", "none"}
         => c2.error

\* Every process call in flight, of the graph run and of the drains.
AllProcessWrites ==
    /\ ProcessWrites(run.ctx, run'.ctx, agentStatus')
    /\ \A c \in DOMAIN child : \A w \in DOMAIN child[c] :
         ProcessWrites(child[c][w], child'[c][w], agentStatus')

\* C35 as stated: process writes Working on start, Idle or Error before it
\* returns, a failure is returned in state.error, and no failure inside
\* process is raised to its caller.
C35_FailureNeverRaised ==
    [][/\ AllProcessWrites
       /\ run.ctx.pc \in ProcessPCs => run'.ctx.pc # "run_except"]_vars

\* ------------------------------------------- the order of task statuses
\* C36: no step writes In Progress or Backlog to a task that is in Review,
\* and none writes Backlog to a task that is In Progress.
C36_NeverBackward ==
    [][\A i \in DOMAIN tasks :
         /\ tasks[i].status = REVIEW
              => tasks'[i].status \notin {IN_PROGRESS, BACKLOG}
         /\ tasks[i].status = IN_PROGRESS
              => tasks'[i].status # BACKLOG]_vars

\* C37: a task of a registered worker that is in Backlog, In Progress or
\* Review is Done or Blocked later on.
C37_PendingEventuallySettled ==
    \A i \in 1..MaxSubtasks :
        (/\ i \in DOMAIN tasks
         /\ InRegistry(tasks[i].agent)
         /\ tasks[i].status \in {BACKLOG, IN_PROGRESS, REVIEW})
        ~> (i \in DOMAIN tasks /\ tasks[i].status \in {DONE, BLOCKED})

\* -------------------------------------------------------- at rest
\* No graph run, no finalization and no sweep is under way: the consumer
\* waits for an item, run_forever sleeps, and no drain is left running.
AtRest ==
    /\ run.ctx.pc = "idle"
    /\ run.sweep = "none"
    /\ loop.pc = "sleep"
    /\ loop.sweep = "none"
    /\ \A c \in Callers, w \in AgentRows :
         child[c][w].pc \in {"none", "done", "skipped", "raised"}

\* C38: at rest no registered worker is Working and no task is In Progress
\* or in Review.
C38_NothingLeftHalfway ==
    AtRest =>
      /\ \A a \in DOMAIN agentStatus :
           InRegistry(a) => agentStatus[a] # WORKING
      /\ \A i \in DOMAIN tasks : tasks[i].status \notin {IN_PROGRESS, REVIEW}

\* ------------------------------------------------------- the locks
\* C39: a per-worker lock is held only while a drain of that worker or a
\* finalization for it is executing, and the global lock only while a sweep
\* body is: none stays held after its holder returned, raised or was
\* cancelled.
C39_LocksFollowHolders ==
    /\ \A id \in LockIds :
         agentLocked[id] =>
           \/ \E c \in Callers :
                id \in AgentRows /\ ChildHolds(child[c][id])
           \/ run.ctx.pc \in SettlePCs /\ run.ctx.agent = id
    /\ dispatchLocked =>
         \E c \in Callers : InBody(c)

\* C39 witness: a drain that held its worker's lock has ended by an
\* exception and the lock is free, while the sweep that started the drain
\* still runs and holds the global lock.
C39_Witness ==
    /\ run.ctx.pc = "d_join"
    /\ dispatchLocked
    /\ \E w \in AgentRows :
         child["runner"][w].pc = "raised" /\ ~agentLocked[w]

====
